---- MODULE Spec2Model ----
(***************************************************************************)
(* A model of ppacher/system-conf, package conf: the drop-in merge engine  *)
(* (ApplyDropIns, mergeSections) and the option validation (ValidateOption,*)
(* ValidateOptions).                                                       *)
(*                                                                         *)
(* A Go nil-able value (a *Section, an OptionRegistry) is a sequence of at *)
(* most one element: <<>> is nil and <<x>> is a value x.  A Go map that is *)
(* ranged over is visited in an order the action chooses (the language     *)
(* leaves the order of a range over a map open).  An error is a record of  *)
(* its kind (the sentinel errors.Is finds) and the name it is wrapped with.*)
(***************************************************************************)
EXTENDS Naturals, Sequences, FiniteSets, TLC

VARIABLES op, pc, res, t, tIn, dropins, secReg, slm, idx,
          options, specs, values, spec, ret, lookupName,
          inSection, outType, outVal, outIn, hooks

vars == <<op, pc, res, t, tIn, dropins, secReg, slm, idx,
          options, specs, values, spec, ret, lookupName,
          inSection, outType, outVal, outIn, hooks>>

dropInVars == <<t, tIn, dropins, secReg, slm, idx>>
validateVars == <<options, specs, values, spec>>
prepareVars == <<ret>>
lookupVars == <<lookupName>>
decodeVars == <<inSection, outType, outVal, outIn, hooks>>

(***************************************************************************)
(* Bounds of the model.                                                    *)
(***************************************************************************)
MaxDropIns == 2
MaxDropInOpts == 2
MaxValues == 3
MaxOptions == 2
MaxSections == 2

(***************************************************************************)
(* Helpers on sequences and sets.                                          *)
(***************************************************************************)
Range(s) == {s[i] : i \in DOMAIN s}

SeqsUpTo(S, n) == UNION {[1..k -> S] : k \in 0..n}

\* Every order in which the elements of S can be visited once each.
Perms(S) ==
  {f \in [1..Cardinality(S) -> S] : \A i, j \in DOMAIN f : f[i] = f[j] => i = j}

(***************************************************************************)
(* strings.ToLower on the names the model uses.                            *)
(***************************************************************************)
ToLower(s) ==
  CASE s = "Test" -> "test"
    [] s = "TEST" -> "test"
    [] s = "Conf" -> "conf"
    [] s = "Single" -> "single"
    [] s = "Slice1" -> "slice1"
    [] s = "SLICE1" -> "slice1"
    [] s = "Slice2" -> "slice2"
    [] s = "Nope" -> "nope"
    [] s = "Option1" -> "option1"
    [] s = "OPTION1" -> "option1"
    [] s = "Option2" -> "option2"
    [] s = "Type" -> "type"
    [] s = "FOO" -> "foo"
    [] s = "BAR" -> "bar"
    [] s = "Bar" -> "bar"
    [] s = "STRING" -> "string"
    [] s = "String" -> "string"
    [] s = "SLICE" -> "slice"
    [] s = "Slice" -> "slice"
    [] s = "SOME" -> "some"
    [] s = "NOPE" -> "nope"
    [] s = "UNKNOWN" -> "unknown"
    [] OTHER -> s

(***************************************************************************)
(* Errors.                                                                 *)
(***************************************************************************)
ErrOptionRequired == "ErrOptionRequired"
ErrOptionAllowedOnce == "ErrOptionAllowedOnce"
ErrOptionNotExists == "ErrOptionNotExists"
ErrInvalidBoolean == "ErrInvalidBoolean"
ErrInvalidFloat == "ErrInvalidFloat"
ErrInvalidNumber == "ErrInvalidNumber"
ErrInvalidDuration == "ErrInvalidDuration"
ErrDropInSectionNotExists == "ErrDropInSectionNotExists"
ErrDropInSectionNotAllowed == "ErrDropInSectionNotAllowed"
ErrNoOptions == "ErrNoOptions"

\* No error.
NoErr == "nil"
\* The run-time panic of a nil pointer dereference: the call does not return.
Panic == "panic"

\* fmt.Errorf("%s: %w", name, err)
Errorf(name, err) == [err |-> err, name |-> name]

NoResult == [err |-> "none", name |-> ""]

(***************************************************************************)
(* Option types.                                                           *)
(***************************************************************************)
StringType == "string"
StringSliceType == "[]string"
BoolType == "bool"
IntType == "int"
IntSliceType == "[]int"
FloatType == "float"
FloatSliceType == "[]float"
DurationType == "duration"
DurationSliceType == "[]duration"

IsSliceType(o) ==
  o \in {StringSliceType, IntSliceType, FloatSliceType, DurationSliceType}

OptionSpec(name, type, required) ==
  [Name |-> name, Type |-> type, Required |-> required, Default |-> ""]

Option(name, value) == [Name |-> name, Value |-> value]

Section(name, opts) == [Name |-> name, Options |-> opts]

(***************************************************************************)
(* SectionSpec and FileSpec.                                               *)
(***************************************************************************)
GetOptionFindsAny(sectionSpec, optName) ==
  LET hits == {i \in DOMAIN sectionSpec : ToLower(sectionSpec[i].Name) = optName}
  IN  [ok |-> TRUE,
       spec |-> IF hits = {} THEN [Name |-> "", Type |-> "string", Required |-> FALSE,
                                   Default |-> ""]
                ELSE sectionSpec[CHOOSE i \in hits : \A j \in hits : i <= j]]

\* SectionSpec.GetOption: the first OptionSpec whose lowercased name is optName.
GetOption(sectionSpec, optName) ==
  LET hits == {i \in DOMAIN sectionSpec : ToLower(sectionSpec[i].Name) = optName}
  IN  IF hits = {}
        THEN [ok |-> FALSE, spec |-> OptionSpec("", StringType, FALSE)]
        ELSE [ok |-> TRUE,
              spec |-> sectionSpec[CHOOSE i \in hits : \A j \in hits : i <= j]]

\* FileSpec.OptionsForSection: the entry under the lowercased name, else an
\* entry whose key lowercases to it, else (nil, false).
OptionsForSection(fileSpec, name) ==
  LET key == ToLower(name)
      hits == {mk \in DOMAIN fileSpec : ToLower(mk) = key}
  IN  IF key \in DOMAIN fileSpec THEN [reg |-> fileSpec[key], ok |-> TRUE]
      ELSE IF hits # {} THEN [reg |-> fileSpec[CHOOSE mk \in hits : TRUE], ok |-> TRUE]
      ELSE [reg |-> <<>>, ok |-> FALSE]

(***************************************************************************)
(* mergeSections.                                                          *)
(***************************************************************************)
\* The lookup map of a drop-in section: lowercased option name -> its
\* options, in the order of the section.
OptionLookup(dropInSec) ==
  [on \in {ToLower(o.Name) : o \in Range(dropInSec.Options)} |->
     SelectSeq(dropInSec.Options, LAMBDA o : ToLower(o.Name) = on)]

\* One round of the loop of mergeSections once the option is known to the
\* registry: the section after the values opts of the drop-in for the option
\* optSpec are merged into it.
mergeOptionKeepsSentinel(sec, opts, optSpec) ==
  LET optLowerName == ToLower(opts[1].Name)
      clear == ~IsSliceType(optSpec.Type) \/ opts[1].Value = ""
      kept == IF clear
                THEN SelectSeq(sec.Options, LAMBDA o : ToLower(o.Name) # optLowerName)
                ELSE sec.Options
  IN  [sec EXCEPT !.Options = kept \o opts]

mergeOptionAlwaysAppends(sec, opts, optSpec) ==
  [sec EXCEPT !.Options = sec.Options \o opts]

mergeOption(sec, opts, optSpec) ==
  LET optLowerName == ToLower(opts[1].Name)
      clear == ~IsSliceType(optSpec.Type) \/ opts[1].Value = ""
      kept == IF clear
                THEN SelectSeq(sec.Options, LAMBDA o : ToLower(o.Name) # optLowerName)
                ELSE sec.Options
      added == IF clear /\ IsSliceType(optSpec.Type) THEN Tail(opts) ELSE opts
  IN  [sec EXCEPT !.Options = kept \o added]

\* The loop "for optName, opts := range olm" of mergeSections over the keys
\* in `order`; s is the *Section (<<>> is nil, and reading s.Options panics).
RECURSIVE mergeOptions(_, _, _, _)
mergeOptions(s, olm, optReg, order) ==
  IF order = <<>> THEN [err |-> NoErr, name |-> "", s |-> s]
  ELSE
    LET optName == Head(order)
        optLowerName == ToLower(optName)
    IN  IF ~GetOption(optReg, optLowerName).ok
          THEN [err |-> ErrOptionNotExists, name |-> optName, s |-> s]
        ELSE IF s = <<>> THEN [err |-> Panic, name |-> optName, s |-> s]
        ELSE mergeOptions(<<mergeOption(s[1], olm[optName],
                                        GetOption(optReg, optLowerName).spec)>>,
                          olm, optReg, Tail(order))

mergeSections(s, dropInSec, optReg, order) ==
  IF optReg = <<>> THEN [err |-> ErrNoOptions, name |-> "", s |-> s]
  ELSE mergeOptions(s, OptionLookup(dropInSec), optReg[1], order)

(***************************************************************************)
(* ApplyDropIns.                                                           *)
(***************************************************************************)
SectionLookupKeepsLast(sections) ==
  [sn \in {ToLower(sec.Name) : sec \in Range(sections)} |->
     LET is == {i \in DOMAIN sections : ToLower(sections[i].Name) = sn}
     IN  <<sections[CHOOSE i \in is : \A j \in is : j <= i]>>]

\* The section lookup map slm: lowercased section name -> a pointer to a copy
\* of the one section of that name, nil when the name occurs more than once.
SectionLookup(sections) ==
  [sn \in {ToLower(sec.Name) : sec \in Range(sections)} |->
     LET is == {i \in DOMAIN sections : ToLower(sections[i].Name) = sn}
     IN  IF Cardinality(is) > 1 THEN <<>> ELSE <<sections[CHOOSE i \in is : TRUE]>>]

\* "rebuild the section slice": every section whose name maps to a non-nil
\* entry is replaced by that entry.
Rebuild(file, m) ==
  [file EXCEPT !.Sections =
     [i \in DOMAIN file.Sections |->
        LET val == m[ToLower(file.Sections[i].Name)]
        IN  IF val # <<>> THEN val[1] ELSE file.Sections[i]]]

\* The checks of a drop-in section before it is merged: the section must be
\* in slm, and the registry must resolve it to a non-nil option registry.
checkTargetRegistryFirst(m, fileSpec, sn) ==
  IF OptionsForSection(fileSpec, sn).reg = <<>> \/ ~OptionsForSection(fileSpec, sn).ok
    THEN ErrDropInSectionNotAllowed
  ELSE IF sn \notin DOMAIN m THEN ErrDropInSectionNotExists
  ELSE NoErr

checkTarget(m, fileSpec, sn) ==
  IF sn \notin DOMAIN m THEN ErrDropInSectionNotExists
  ELSE IF OptionsForSection(fileSpec, sn).reg = <<>> \/ ~OptionsForSection(fileSpec, sn).ok
    THEN ErrDropInSectionNotAllowed
  ELSE NoErr

\* What the caller's file holds while the drop-ins are merged: slm points at
\* copies (sec := t.Sections[idx]; slm[sn] = &sec), so the file is untouched.
AliasedDuringMerge(file, m) == Rebuild(file, m)
DuringMerge(file, m) == file

(***************************************************************************)
(* The inputs of ApplyDropIns.                                             *)
(***************************************************************************)
TestSpec ==
  << OptionSpec("Single", StringType, FALSE),
     OptionSpec("Slice1", StringSliceType, FALSE),
     OptionSpec("Slice2", StringSliceType, FALSE) >>

\* The registries: "test" resolves and "Conf" is registered as nil; "Test" and
\* "Conf" are found by the second lookup only; "test" is not registered.
FileSpecs ==
  { ("test" :> <<TestSpec>>) @@ ("Conf" :> <<>>),
    ("Test" :> <<TestSpec>>) @@ ("Conf" :> <<TestSpec>>),
    ("Conf" :> <<TestSpec>>) }

\* The base files: those of the tests of dropin_test.go, and files with two
\* unique sections, with a name repeated in another casing, and with a unique
\* section beside a repeated one.
TestBase == Section("Test", <<Option("Single", "TSK"), Option("Slice1", "TSK")>>)

BaseFiles ==
  {[Sections |-> ss] : ss \in
     { <<>>,
       <<TestBase>>,
       <<Section("Test", <<>>)>>,
       <<Section("Test", <<>>), Section("Test", <<>>)>>,
       <<TestBase, Section("TEST", <<Option("Slice1", "TSK")>>)>>,
       <<Section("Conf", <<Option("Slice1", "TSK")>>), TestBase>>,
       <<Section("Conf", <<>>), TestBase, Section("Conf", <<>>)>> }}

DropInOptions ==
  { Option("Single", "d2"), Option("SLICE1", ""), Option("SLICE1", "d2"),
    Option("Nope", "d2") }

DropInSectionNames == {"test", "Conf"}

\* The drop-ins of TestApplyDropIns.
TestD1 ==
  Section("Test", <<Option("Single", "d1"), Option("Slice2", "d1"),
                    Option("Slice2", "d1"), Option("Slice1", "d1")>>)
TestD2 == Section("Test", <<Option("Slice1", ""), Option("Slice1", "d2")>>)

\* The lists of at most n drop-in sections that hold at most k options
\* altogether.
RECURSIVE DropInListsOf(_, _)
DropInListsOf(n, k) ==
  IF n = 0 THEN {<<>>}
  ELSE {<<>>} \cup
       UNION { { <<Section(name, os)>> \o rest : rest \in DropInListsOf(n - 1, k - Len(os)) } :
               name \in DropInSectionNames, os \in SeqsUpTo(DropInOptions, k) }

\* The sections of the drop-ins, in the order the loops of ApplyDropIns visit
\* them (for _, d := range dropins, for _, dropInSec := range d.Sections).
DropInLists ==
  DropInListsOf(MaxDropIns, MaxDropInOpts) \cup {<<TestD1>>, <<TestD1, TestD2>>}

\* No decode call is in progress.
initialDecodeVars ==
  /\ inSection = [Name |-> "", Options |-> <<>>]
  /\ outType = [Hook |-> "none", Fields |-> <<>>]
  /\ outVal = <<>> /\ outIn = <<>> /\ hooks = <<>>

(***************************************************************************)
(* The call ApplyDropIns(t, dropins, secReg), one action per loop round.    *)
(***************************************************************************)
InitDropIns ==
  /\ op = "ApplyDropIns"
  /\ pc = "call"
  /\ res = NoResult
  /\ t \in BaseFiles
  /\ tIn = t
  /\ dropins \in DropInLists
  /\ secReg \in FileSpecs
  /\ slm = <<>>
  /\ idx = 0
  /\ options = <<>> /\ specs = <<>> /\ values = <<>>
  /\ spec = OptionSpec("", StringType, FALSE)
  /\ ret = <<>>
  /\ lookupName = ""
  /\ initialDecodeVars

\* The first loop: build slm.
ApplyDropInsLookup ==
  /\ op = "ApplyDropIns" /\ pc = "call"
  /\ slm' = SectionLookup(t.Sections)
  /\ idx' = 1
  /\ pc' = "loop"
  /\ UNCHANGED <<op, res, t, tIn, dropins, secReg>>
  /\ UNCHANGED validateVars
  /\ UNCHANGED prepareVars
  /\ UNCHANGED lookupVars
  /\ UNCHANGED decodeVars

\* One round of "for _, dropInSec := range d.Sections".
ApplyDropInsSection ==
  /\ op = "ApplyDropIns" /\ pc = "loop" /\ idx <= Len(dropins)
  /\ LET dropInSec == dropins[idx]
         sn == ToLower(dropInSec.Name)
         found == OptionsForSection(secReg, sn)
     IN  IF checkTarget(slm, secReg, sn) # NoErr
           THEN /\ res' = Errorf(sn, checkTarget(slm, secReg, sn))
                /\ pc' = "done"
                /\ UNCHANGED <<slm, idx, t>>
         ELSE \E order \in Perms(DOMAIN OptionLookup(dropInSec)) :
                LET m == mergeSections(slm[sn], dropInSec, found.reg, order)
                IN  /\ slm' = [slm EXCEPT ![sn] = m.s]
                    /\ t' = DuringMerge(t, slm')
                    /\ IF m.err # NoErr
                         THEN /\ res' = Errorf(sn, m.err)
                              /\ pc' = "done"
                              /\ idx' = idx
                         ELSE /\ idx' = idx + 1
                              /\ UNCHANGED <<res, pc>>
  /\ UNCHANGED <<op, tIn, dropins, secReg>>
  /\ UNCHANGED validateVars
  /\ UNCHANGED prepareVars
  /\ UNCHANGED lookupVars
  /\ UNCHANGED decodeVars

\* After the last drop-in: rebuild the section slice and return nil.
ApplyDropInsReturn ==
  /\ op = "ApplyDropIns" /\ pc = "loop" /\ idx > Len(dropins)
  /\ t' = Rebuild(t, slm)
  /\ res' = Errorf("", NoErr)
  /\ pc' = "done"
  /\ UNCHANGED <<op, tIn, dropins, secReg, slm, idx>>
  /\ UNCHANGED validateVars
  /\ UNCHANGED prepareVars
  /\ UNCHANGED lookupVars
  /\ UNCHANGED decodeVars

NextDropIns == ApplyDropInsLookup \/ ApplyDropInsSection \/ ApplyDropInsReturn

SpecDropIns == InitDropIns /\ [][NextDropIns]_vars

(***************************************************************************)
(* The type checks of checkValue.  The texts are those the model draws     *)
(* values from; each parser is given by the texts among them it accepts.   *)
(***************************************************************************)
\* ConvertBool: a fixed set of truthy and falsy tokens, ignoring case.
ConvertBoolOk(val) ==
  val \in {"yes", "true", "1", "on", "no", "false", "0", "off"}

\* strconv.ParseInt(val, 0, 64)
ParseIntOk(val) == val \in {"10", "0x10", "0600", "0b1100", "1", "0", "7", "-1"}

\* strconv.ParseFloat(val, 64)
ParseFloatOk(val) == val \in {"10", "0.5", ".5", "0.1e10", "1", "0"}

\* time.ParseDuration(val)
ParseDurationOk(val) == val \in {"5m", "10h6s", "0"}

checkValue(val, optType) ==
  CASE optType = BoolType ->
         IF ConvertBoolOk(val) THEN NoErr ELSE ErrInvalidBoolean
    [] optType \in {StringSliceType, StringType} -> NoErr
    [] optType \in {FloatSliceType, FloatType} ->
         IF ParseFloatOk(val) THEN NoErr ELSE ErrInvalidFloat
    [] optType \in {IntSliceType, IntType} ->
         IF ParseIntOk(val) THEN NoErr ELSE ErrInvalidNumber
    [] optType \in {DurationType, DurationSliceType} ->
         IF ParseDurationOk(val) THEN NoErr ELSE ErrInvalidDuration
    [] OTHER -> NoErr

(***************************************************************************)
(* ValidateOption.                                                         *)
(***************************************************************************)
checkValuesSkipsEmpty(vals, optSpec) ==
  LET bad == {i \in DOMAIN vals : checkValue(vals[i], optSpec.Type) # NoErr}
  IN  IF bad = {} THEN NoErr
      ELSE checkValue(vals[CHOOSE i \in bad : \A j \in bad : i <= j], optSpec.Type)

\* The loop "for _, v := range values" of ValidateOption: the error of the
\* first value that is empty though required, or fails the type check.
checkValues(vals, optSpec) ==
  LET bad == {i \in DOMAIN vals :
                \/ optSpec.Required /\ vals[i] = ""
                \/ checkValue(vals[i], optSpec.Type) # NoErr}
      first == CHOOSE i \in bad : \A j \in bad : i <= j
  IN  IF bad = {} THEN NoErr
      ELSE IF optSpec.Required /\ vals[first] = "" THEN ErrOptionRequired
      ELSE checkValue(vals[first], optSpec.Type)

ValidateOptionChecksOnceLast(vals, optSpec) ==
  IF optSpec.Required /\ Len(vals) = 0 THEN ErrOptionRequired
  ELSE IF checkValues(vals, optSpec) # NoErr THEN checkValues(vals, optSpec)
  ELSE IF Len(vals) > 1 /\ ~IsSliceType(optSpec.Type) THEN ErrOptionAllowedOnce
  ELSE NoErr

ValidateOption(vals, optSpec) ==
  IF Len(vals) > 1 /\ ~IsSliceType(optSpec.Type) THEN ErrOptionAllowedOnce
  ELSE IF optSpec.Required /\ Len(vals) = 0 THEN ErrOptionRequired
  ELSE checkValues(vals, optSpec)

(***************************************************************************)
(* ValidateOptions.                                                        *)
(***************************************************************************)
\* lm: lowercased option name -> its OptionSpec (the last of that name).
SpecLookup(sectionSpec) ==
  [n \in {ToLower(sectionSpec[i].Name) : i \in DOMAIN sectionSpec} |->
     LET is == {i \in DOMAIN sectionSpec : ToLower(sectionSpec[i].Name) = n}
     IN  sectionSpec[CHOOSE i \in is : \A j \in is : j <= i]]

\* gv: lowercased option name -> the values of the options of that name.
GroupValues(opts) ==
  [n \in {ToLower(opts[i].Name) : i \in DOMAIN opts} |->
     LET named == SelectSeq(opts, LAMBDA o : ToLower(o.Name) = n)
     IN  [i \in DOMAIN named |-> named[i].Value]]

\* The loop "for name, values := range gv" over the keys in `order`: the
\* error it returns, if any, and the specs left in lm.
RECURSIVE validateGroups(_, _, _)
validateGroups(gv, lm, order) ==
  IF order = <<>> THEN [err |-> NoErr, name |-> "", lm |-> lm]
  ELSE
    LET name == Head(order)
    IN  IF ToLower(name) \notin DOMAIN lm
          THEN [err |-> ErrOptionNotExists, name |-> name, lm |-> lm]
        ELSE IF ValidateOption(gv[name], lm[ToLower(name)]) # NoErr
          THEN [err |-> ValidateOption(gv[name], lm[ToLower(name)]),
                name |-> lm[ToLower(name)].Name, lm |-> lm]
        ELSE validateGroups(gv, [n \in DOMAIN lm \ {name} |-> lm[n]], Tail(order))

requiredLeftNone(lm, order) == Errorf("", NoErr)

\* The loop "for _, spec := range lm" over the keys left, in `order`.
requiredLeft(lm, order) ==
  LET req == {i \in DOMAIN order : order[i] \in DOMAIN lm /\ lm[order[i]].Required}
  IN  IF req = {} THEN Errorf("", NoErr)
      ELSE Errorf(lm[order[CHOOSE i \in req : \A j \in req : i <= j]].Name,
                  ErrOptionRequired)

\* ValidateOptions when gv is ranged over in order1 and lm in order2.
ValidateOptions(opts, sectionSpec, order1, order2) ==
  LET r == validateGroups(GroupValues(opts), SpecLookup(sectionSpec), order1)
  IN  IF r.err # NoErr THEN Errorf(r.name, r.err)
      ELSE requiredLeft(r.lm, order2)

(***************************************************************************)
(* The inputs of ValidateOption and ValidateOptions.                       *)
(***************************************************************************)
OptionTypes ==
  { StringType, StringSliceType, BoolType, IntType, IntSliceType, FloatType,
    FloatSliceType, DurationType, DurationSliceType }

\* The empty text, and texts the type checks tell apart.
Values == {"", "yes", "10", "5m"}

OptionSpecs == {OptionSpec("Option1", ty, req) : ty \in OptionTypes, req \in BOOLEAN}

\* The registries of ValidateOptions: Option1 and Option2, each left out or
\* given one of four types, required or not.
SectionTypes == {StringType, StringSliceType, IntType, IntSliceType}

SpecsOf(name) ==
  {<<>>} \cup {<<OptionSpec(name, ty, req)>> : ty \in SectionTypes, req \in BOOLEAN}

SectionSpecs == {s1 \o s2 : s1 \in SpecsOf("Option1"), s2 \in SpecsOf("Option2")}

OptionsUniverse ==
  {Option(n, v) : n \in {"Option1", "OPTION1", "Option2"}, v \in {"", "yes", "10"}}

initialDropInVars ==
  /\ t = [Sections |-> <<>>] /\ tIn = t /\ dropins = <<>>
  /\ secReg = <<>> /\ slm = <<>> /\ idx = 0

InitValidateOption ==
  /\ op = "ValidateOption" /\ pc = "call" /\ res = NoResult
  /\ values \in SeqsUpTo(Values, MaxValues)
  /\ spec \in OptionSpecs
  /\ options = <<>> /\ specs = <<>>
  /\ initialDropInVars
  /\ ret = <<>>
  /\ lookupName = ""
  /\ initialDecodeVars

InitValidateOptions ==
  /\ op = "ValidateOptions" /\ pc = "call" /\ res = NoResult
  /\ options \in SeqsUpTo(OptionsUniverse, MaxOptions)
  /\ specs \in SectionSpecs
  /\ values = <<>> /\ spec = OptionSpec("", StringType, FALSE)
  /\ initialDropInVars
  /\ ret = <<>>
  /\ lookupName = ""
  /\ initialDecodeVars

InitValidate == InitValidateOption \/ InitValidateOptions

ValidateOptionCall ==
  /\ op = "ValidateOption" /\ pc = "call"
  /\ res' = Errorf("", ValidateOption(values, spec))
  /\ pc' = "done"
  /\ UNCHANGED <<op, t, tIn, dropins, secReg, slm, idx, options, specs, values, spec>>
  /\ UNCHANGED prepareVars
  /\ UNCHANGED lookupVars
  /\ UNCHANGED decodeVars

ValidateOptionsCall ==
  /\ op = "ValidateOptions" /\ pc = "call"
  /\ \E order1 \in Perms(DOMAIN GroupValues(options)),
        order2 \in Perms(DOMAIN SpecLookup(specs)) :
       res' = ValidateOptions(options, specs, order1, order2)
  /\ pc' = "done"
  /\ UNCHANGED <<op, t, tIn, dropins, secReg, slm, idx, options, specs, values, spec>>
  /\ UNCHANGED prepareVars
  /\ UNCHANGED lookupVars
  /\ UNCHANGED decodeVars

NextValidate == ValidateOptionCall \/ ValidateOptionsCall

SpecValidate == InitValidate /\ [][NextValidate]_vars

(***************************************************************************)
(* ApplyDefaults, Prepare and ValidateFile.                                *)
(***************************************************************************)
ErrUnknownSection == "ErrUnknownSection"
ErrOptionNotSet == "ErrOptionNotSet"

OptionSpecWithDefault(name, type, required, default) ==
  [Name |-> name, Type |-> type, Required |-> required, Default |-> default]

\* Options.GetStringSlice: the values of the options of that name, ignoring
\* case, in order.
GetStringSlice(opts, name) ==
  LET named == SelectSeq(opts, LAMBDA o : ToLower(o.Name) = ToLower(name))
  IN  [i \in DOMAIN named |-> named[i].Value]

\* Options.GetRequiredStringSlice: ErrOptionNotSet when there is no value.
GetRequiredStringSlice(opts, name) ==
  IF GetStringSlice(opts, name) = <<>> THEN ErrOptionNotSet ELSE NoErr

\* Options.GetString: ErrOptionNotSet when there is no value,
\* ErrOptionAllowedOnce when there are several.
GetString(opts, name) ==
  IF GetStringSlice(opts, name) = <<>> THEN ErrOptionNotSet
  ELSE IF Len(GetStringSlice(opts, name)) > 1 THEN ErrOptionAllowedOnce
  ELSE NoErr

applyDefaultAlsoRequired(opts, optSpec) ==
  IF optSpec.Default # "" /\ GetStringSlice(opts, optSpec.Name) = <<>>
    THEN Append(opts, Option(optSpec.Name, optSpec.Default))
  ELSE opts

applyDefaultAlsoPresent(opts, optSpec) ==
  IF ~optSpec.Required /\ optSpec.Default # ""
    THEN Append(opts, Option(optSpec.Name, optSpec.Default))
  ELSE opts

\* One round of the loop of ApplyDefaults.
applyDefault(opts, optSpec) ==
  IF optSpec.Required THEN opts
  ELSE IF optSpec.Default = "" THEN opts
  ELSE LET err == IF IsSliceType(optSpec.Type)
                    THEN GetRequiredStringSlice(opts, optSpec.Name)
                  ELSE GetString(opts, optSpec.Name)
       IN  IF err = ErrOptionNotSet
             THEN Append(opts, Option(optSpec.Name, optSpec.Default))
           ELSE opts

RECURSIVE ApplyDefaults(_, _)
ApplyDefaults(opts, sectionSpec) ==
  IF sectionSpec = <<>> THEN opts
  ELSE ApplyDefaults(applyDefault(opts, Head(sectionSpec)), Tail(sectionSpec))

PrepareValidatesCopy(sec, sectionSpec, order1, order2) ==
  [ copy |-> Section(sec.Name, ApplyDefaults(sec.Options, sectionSpec)),
    err |-> LET withDefaults == ApplyDefaults(sec.Options, sectionSpec)
            IN  ValidateOptions(withDefaults, sectionSpec,
                                CHOOSE o \in Perms(DOMAIN GroupValues(withDefaults)) : TRUE,
                                order2) ]

\* Prepare: the section with the defaults applied, and the error of
\* ValidateOptions on the options the section came with.
Prepare(sec, sectionSpec, order1, order2) ==
  [ copy |-> Section(sec.Name, ApplyDefaults(sec.Options, sectionSpec)),
    err |-> ValidateOptions(sec.Options, sectionSpec, order1, order2) ]

storeSectionAtEnd(file, i, sec) == file

\* file.Sections[idx] = sec
storeSection(file, i, sec) == [file EXCEPT !.Sections[i] = sec]

resolveSectionSkipsUnknown(fileSpec, section) ==
  IF OptionsForSection(fileSpec, ToLower(section.Name)).ok
    THEN OptionsForSection(fileSpec, ToLower(section.Name))
  ELSE [reg |-> <<<<>>>>, ok |-> TRUE]

\* specs.OptionsForSection(strings.ToLower(section.Name))
resolveSection(fileSpec, section) ==
  OptionsForSection(fileSpec, ToLower(section.Name))

(***************************************************************************)
(* The inputs of ApplyDefaults and ValidateFile.                           *)
(***************************************************************************)
\* A list and a non-list type; "yes" is a default the int type rejects.
DefaultTypes == {StringSliceType, IntType}

DefaultSpecsOf(name) ==
  {<<>>} \cup
  {<<OptionSpecWithDefault(name, ty, req, def)>> :
     ty \in DefaultTypes, req \in BOOLEAN, def \in {"", "yes"}}

DefaultSectionSpecs ==
  {s1 \o s2 : s1 \in DefaultSpecsOf("Option1"), s2 \in DefaultSpecsOf("Option2")}

\* The section specs of the registries of ValidateFile.
FileSectionSpecs ==
  { <<OptionSpecWithDefault("Option1", IntType, FALSE, "yes"),
      OptionSpecWithDefault("Option2", StringSliceType, FALSE, "")>>,
    <<OptionSpecWithDefault("Option1", IntType, FALSE, "10"),
      OptionSpecWithDefault("Option2", StringSliceType, TRUE, "")>>,
    <<OptionSpecWithDefault("Option1", StringSliceType, FALSE, "yes"),
      OptionSpecWithDefault("Option2", IntType, FALSE, "10")>> }

\* specs SectionRegistry: <<>> is nil, <<r>> the registry r.  A registry
\* resolves "test" and "conf" and does not know "nope"; FileSpec{} resolves
\* nothing.
SectionRegistries ==
  {<<>>, << <<>> >>} \cup
  { << ("test" :> <<s>>) @@ ("Conf" :> <<s>>) >> : s \in FileSectionSpecs }

FileSectionNames == {"Test", "Conf", "Nope"}

FileOptions == {Option("Option1", "10"), Option("OPTION1", "yes"), Option("Option2", "")}

\* The files of at most n sections that hold at most k options altogether.
RECURSIVE FilesOf(_, _)
FilesOf(n, k) ==
  IF n = 0 THEN {<<>>}
  ELSE {<<>>} \cup
       UNION { { <<Section(name, os)>> \o rest : rest \in FilesOf(n - 1, k - Len(os)) } :
               name \in FileSectionNames, os \in SeqsUpTo(FileOptions, k) }

InitApplyDefaults ==
  /\ op = "ApplyDefaults" /\ pc = "call" /\ res = NoResult
  /\ options \in SeqsUpTo(OptionsUniverse, MaxOptions)
  /\ specs \in DefaultSectionSpecs
  /\ values = <<>> /\ spec = OptionSpec("", StringType, FALSE)
  /\ initialDropInVars
  /\ ret = <<>>
  /\ lookupName = ""
  /\ initialDecodeVars

InitValidateFile ==
  /\ op = "ValidateFile" /\ pc = "call" /\ res = NoResult
  /\ t \in {[Sections |-> ss] : ss \in FilesOf(MaxSections, MaxOptions)}
  /\ tIn = t
  /\ secReg \in SectionRegistries
  /\ dropins = <<>> /\ slm = <<>> /\ idx = 0
  /\ options = <<>> /\ specs = <<>> /\ values = <<>>
  /\ spec = OptionSpec("", StringType, FALSE)
  /\ ret = <<>>
  /\ lookupName = ""
  /\ initialDecodeVars

InitPrepare == InitApplyDefaults \/ InitValidateFile

ApplyDefaultsCall ==
  /\ op = "ApplyDefaults" /\ pc = "call"
  /\ ret' = ApplyDefaults(options, specs)
  /\ res' = Errorf("", NoErr)
  /\ pc' = "done"
  /\ UNCHANGED <<op, options, specs, values, spec>>
  /\ UNCHANGED dropInVars
  /\ UNCHANGED lookupVars
  /\ UNCHANGED decodeVars

\* if specs == nil { return nil }
ValidateFileEnter ==
  /\ op = "ValidateFile" /\ pc = "call"
  /\ IF secReg = <<>>
       THEN res' = Errorf("", NoErr) /\ pc' = "done" /\ idx' = idx
     ELSE pc' = "loop" /\ idx' = 1 /\ res' = res
  /\ UNCHANGED <<op, t, tIn, dropins, secReg, slm>>
  /\ UNCHANGED validateVars
  /\ UNCHANGED prepareVars
  /\ UNCHANGED lookupVars
  /\ UNCHANGED decodeVars

\* One round of the loop over file.Sections.
ValidateFileSection ==
  /\ op = "ValidateFile" /\ pc = "loop"
  /\ idx \in DOMAIN t.Sections
  /\ LET section == t.Sections[idx]
         found == resolveSection(secReg[1], section)
     IN  IF ~found.ok
           THEN /\ res' = Errorf(section.Name, ErrUnknownSection)
                /\ pc' = "done"
                /\ UNCHANGED <<t, idx>>
         ELSE \E order1 \in Perms(DOMAIN GroupValues(section.Options)),
                 order2 \in Perms(DOMAIN SpecLookup(found.reg[1])) :
                LET p == Prepare(section, found.reg[1], order1, order2)
                IN  IF p.err.err # NoErr
                      THEN /\ res' = p.err
                           /\ pc' = "done"
                           /\ UNCHANGED <<t, idx>>
                    ELSE /\ t' = storeSection(t, idx, p.copy)
                         /\ idx' = idx + 1
                         /\ UNCHANGED <<res, pc>>
  /\ UNCHANGED <<op, tIn, dropins, secReg, slm>>
  /\ UNCHANGED validateVars
  /\ UNCHANGED prepareVars
  /\ UNCHANGED lookupVars
  /\ UNCHANGED decodeVars

ValidateFileReturn ==
  /\ op = "ValidateFile" /\ pc = "loop"
  /\ idx > Len(t.Sections)
  /\ res' = Errorf("", NoErr)
  /\ pc' = "done"
  /\ UNCHANGED <<op, t, tIn, dropins, secReg, slm, idx>>
  /\ UNCHANGED validateVars
  /\ UNCHANGED prepareVars
  /\ UNCHANGED lookupVars
  /\ UNCHANGED decodeVars

NextPrepare ==
  \/ ApplyDefaultsCall
  \/ ValidateFileEnter
  \/ ValidateFileSection
  \/ ValidateFileReturn

SpecPrepare == InitPrepare /\ [][NextPrepare]_vars

\* A second ValidateFile(file, specs) on the document the first call left,
\* with the same registry; ret keeps the document as the first call left it.
ValidateFileAgain ==
  /\ op = "ValidateFile" /\ pc = "done" /\ res.err = NoErr /\ ret = <<>>
  /\ ret' = <<t>>
  /\ pc' = "call" /\ res' = NoResult
  /\ UNCHANGED <<op, lookupName>>
  /\ UNCHANGED dropInVars
  /\ UNCHANGED validateVars
  /\ UNCHANGED decodeVars

NextValidateTwice ==
  \/ ValidateFileEnter
  \/ ValidateFileSection
  \/ ValidateFileReturn
  \/ ValidateFileAgain

SpecValidateTwice == InitValidateFile /\ [][NextValidateTwice]_vars

(***************************************************************************)
(* SectionSpec.GetOption and SectionSpec.HasOption.                        *)
(***************************************************************************)
HasOption(sectionSpec, name) == GetOption(sectionSpec, name).ok

LookupNames == {"Option1", "OPTION1", "option1", "Type", "type", "nope"}

LookupSpecNames == {"Option1", "option1", "Type", "type"}

\* Section specs of one or two options with different names.
LookupSpecs ==
  {<<OptionSpec(n, StringType, FALSE)>> : n \in LookupSpecNames} \cup
  {<<OptionSpec(p[1], StringType, FALSE), OptionSpec(p[2], IntType, FALSE)>> :
     p \in {q \in LookupSpecNames \X LookupSpecNames : ToLower(q[1]) # ToLower(q[2])}}

InitLookup ==
  /\ op \in {"GetOption", "HasOption"} /\ pc = "call" /\ res = NoResult
  /\ specs \in LookupSpecs
  /\ lookupName \in LookupNames
  /\ options = <<>> /\ values = <<>>
  /\ spec = OptionSpec("", StringType, FALSE)
  /\ initialDropInVars
  /\ ret = <<>>
  /\ initialDecodeVars

GetOptionCall ==
  /\ op = "GetOption" /\ pc = "call"
  /\ ret' = GetOption(specs, lookupName)
  /\ pc' = "done"
  /\ UNCHANGED <<op, res, options, specs, values, spec, lookupName>>
  /\ UNCHANGED dropInVars
  /\ UNCHANGED decodeVars

HasOptionCall ==
  /\ op = "HasOption" /\ pc = "call"
  /\ ret' = [ok |-> HasOption(specs, lookupName)]
  /\ pc' = "done"
  /\ UNCHANGED <<op, res, options, specs, values, spec, lookupName>>
  /\ UNCHANGED dropInVars
  /\ UNCHANGED decodeVars

NextLookup == GetOptionCall \/ HasOptionCall

SpecGetOption == InitLookup /\ [][NextLookup]_vars

(***************************************************************************)
(* decode: option values into a field of the target struct.  A field is    *)
(* described by its reflect.Kind; a field of kind slice by the kind of its *)
(* elements.                                                               *)
(***************************************************************************)
StringKind == "string"
IntKind == "int"
BoolKind == "bool"
StringSliceKind == "[]string"
IntSliceKind == "[]int"

ScalarKinds == {StringKind, IntKind, BoolKind}
SliceKinds == {StringSliceKind, IntSliceKind}

\* valType.Elem()
ElemKind(kind) == IF kind = StringSliceKind THEN StringKind ELSE IntKind

\* reflect.Zero
Zero(kind) ==
  CASE kind = StringKind -> ""
    [] kind = IntKind -> 0
    [] kind = BoolKind -> FALSE
    [] OTHER -> <<>>

\* The errors decode builds with fmt.Errorf and errors.New.
ErrCannotConvert == "cannot convert %d values into basic value"
ErrTypeMismatch == "type mismatch"
ErrInvalidType == "invalid type"
ErrNotSliceType == "cannot decode into slice, not a slice type"
ErrParse == "strconv: invalid syntax"

\* strconv.ParseInt(data, 0, 64) on the texts it accepts.
ParseInt(data) ==
  CASE data = "10" -> 10
    [] data = "0x10" -> 16
    [] data = "0600" -> 384
    [] data = "0b1100" -> 12
    [] data = "1" -> 1
    [] data = "7" -> 7
    [] data = "-1" -> 0 - 1
    [] OTHER -> 0

\* ConvertBool on the tokens it accepts.
ConvertBool(data) == data \in {"yes", "true", "1", "on"}

decodeBool(data, specType, cur) ==
  IF specType # BoolType THEN [err |-> ErrTypeMismatch, val |-> cur]
  ELSE IF ~ConvertBoolOk(data) THEN [err |-> ErrInvalidBoolean, val |-> cur]
  ELSE [err |-> NoErr, val |-> ConvertBool(data)]

decodeInt(data, specType, cur) ==
  IF specType # IntType /\ specType # IntSliceType
    THEN [err |-> ErrInvalidType, val |-> cur]
  ELSE IF ~ParseIntOk(data) THEN [err |-> ErrParse, val |-> cur]
  ELSE [err |-> NoErr, val |-> ParseInt(data)]

decodeString(data, specType, cur) ==
  IF specType # StringType /\ specType # StringSliceType
    THEN [err |-> ErrInvalidType, val |-> cur]
  ELSE [err |-> NoErr, val |-> data]

\* decode into a field of scalar kind: data[0] is read whatever len(data) is,
\* which faults when data is empty.
decodeScalar(data, specType, kind, cur) ==
  IF ~IsSliceType(specType) /\ Len(data) # 1
    THEN [err |-> ErrCannotConvert, val |-> cur]
  ELSE IF data = <<>> THEN [err |-> Panic, val |-> cur]
  ELSE CASE kind = BoolKind -> decodeBool(data[1], specType, cur)
         [] kind = IntKind -> decodeInt(data[1], specType, cur)
         [] OTHER -> decodeString(data[1], specType, cur)

\* sliceVal.Index(i) and outVal.Field(i) are the element itself: what a call
\* decodes into it is stored at i whether the call fails or not.
setIndex(val, i, d) == [err |-> d.err, val |-> [val EXCEPT ![i] = d.val]]

\* outVal.Set(sliceVal) is reached when every element decoded; before it the
\* field shows the elements it had.
setSlice(r, cur) ==
  IF r.err = NoErr THEN r ELSE [err |-> r.err, val |-> SubSeq(r.val, 1, Len(cur))]

\* The loop of decodeSlice from value i on, and its step after value i with
\* result r; sliceVal shares the elements the field had.
RECURSIVE decodeElements(_, _, _, _, _)
decodeElementsAfter(data, specType, kind, i, r) ==
  IF r.err # NoErr THEN r ELSE decodeElements(data, specType, kind, r.val, i + 1)

decodeElements(data, specType, kind, sliceVal, i) ==
  IF i > Len(data) THEN [err |-> NoErr, val |-> sliceVal]
  ELSE
    LET grown == IF Len(sliceVal) < i THEN Append(sliceVal, Zero(ElemKind(kind)))
                 ELSE sliceVal
    IN  decodeElementsAfter(data, specType, kind, i,
          setIndex(grown, i,
                   decodeScalar(<<data[i]>>, specType, ElemKind(kind), grown[i])))

decodeSlice(data, specType, kind, cur) ==
  IF ~IsSliceType(specType) THEN [err |-> ErrNotSliceType, val |-> cur]
  ELSE setSlice(decodeElements(data, specType, kind, cur, 1), cur)

decode(data, specType, kind, cur) ==
  IF ~IsSliceType(specType) /\ Len(data) # 1
    THEN [err |-> ErrCannotConvert, val |-> cur]
  ELSE IF kind \in SliceKinds THEN decodeSlice(data, specType, kind, cur)
  ELSE decodeScalar(data, specType, kind, cur)

(***************************************************************************)
(* decodeSectionToStruct.  The type of the target struct is its fields, in *)
(* order, and whether it implements SectionUnmarshaler; its value is the   *)
(* values of the fields, in order.                                         *)
(***************************************************************************)
ErrUnmarshalSection == "error returned by UnmarshalSection"

Field(name, tag, kind) == [Name |-> name, Tag |-> tag, Kind |-> kind]

\* unicode.IsUpper([]rune(name)[0]) on the field names the model uses.
Exported(name) == name # "internal"

\* The lookup of the option spec of a field: the name is lowercased first.
FindOption(sectionSpec, name) == GetOption(sectionSpec, ToLower(name))

unmarshalSectionUnchecked(type, sec, sectionSpec, calls) ==
  [err |-> NoErr, calls |-> calls]

\* if u != nil { if err := u.UnmarshalSection(section, spec); err != nil ... }
unmarshalSection(type, sec, sectionSpec, calls) ==
  IF type.Hook = "none" THEN [err |-> NoErr, calls |-> calls]
  ELSE [err |-> IF type.Hook = "error" THEN ErrUnmarshalSection ELSE NoErr,
        calls |-> Append(calls, [sec |-> sec, spec |-> sectionSpec])]

\* One round of the loop over the fields: the error and the field's value.
decodeField(sec, sectionSpec, field, cur) ==
  LET name == IF field.Tag # "" THEN field.Tag ELSE field.Name
      found == FindOption(sectionSpec, name)
      vals == GetStringSlice(sec.Options, found.spec.Name)
  IN  IF ~Exported(field.Name) \/ name = "-" \/ ~found.ok
        THEN [err |-> NoErr, val |-> cur]
      ELSE IF Len(vals) = 0 /\ ~found.spec.Required
        THEN [err |-> NoErr, val |-> cur]
      ELSE decode(vals, found.spec.Type, field.Kind, cur)

\* The loop over the fields from field i on, and its step after field i with
\* result r.
RECURSIVE decodeFields(_, _, _, _, _)
decodeFieldsAfter(sec, sectionSpec, fields, i, r) ==
  IF r.err # NoErr THEN r ELSE decodeFields(sec, sectionSpec, fields, r.val, i + 1)

decodeFields(sec, sectionSpec, fields, val, i) ==
  IF i > Len(fields) THEN [err |-> NoErr, val |-> val]
  ELSE decodeFieldsAfter(sec, sectionSpec, fields, i,
         setIndex(val, i, decodeField(sec, sectionSpec, fields[i], val[i])))

decodeSectionToStruct(sec, sectionSpec, type, val) ==
  IF unmarshalSection(type, sec, sectionSpec, <<>>).err # NoErr
    THEN [err |-> unmarshalSection(type, sec, sectionSpec, <<>>).err, val |-> val]
  ELSE decodeFields(sec, sectionSpec, type.Fields, val, 1)

\* reflect.Zero of a struct type.
ZeroStruct(type) == [i \in DOMAIN type.Fields |-> Zero(type.Fields[i].Kind)]

(***************************************************************************)
(* The inputs of decodeSectionToStruct.                                    *)
(***************************************************************************)
FieldKinds == ScalarKinds \cup SliceKinds

\* Structs of one or two fields; the second field is tagged, skipped by its
\* tag, or unexported.
StructTypes ==
  { [Hook |-> h, Fields |-> <<Field("Option1", "", k)>> \o more] :
      h \in {"none", "ok", "error"},
      k \in FieldKinds,
      more \in { <<>>, <<Field("Value", "Option2", IntKind)>>,
                 <<Field("Value", "-", IntKind)>>,
                 <<Field("internal", "Option2", IntKind)>> } }

DecodeSpecs ==
  { <<OptionSpec("Option1", ty, req)>> \o more :
      ty \in {StringType, StringSliceType, IntType, IntSliceType, BoolType},
      req \in BOOLEAN,
      more \in {<<>>, <<OptionSpec("Option2", IntType, FALSE)>>} }

DecodeOptions ==
  {Option("Option1", "yes"), Option("OPTION1", "10"), Option("Option2", "10")}

InitDecodeSection ==
  /\ op = "decodeSectionToStruct" /\ pc = "call" /\ res = NoResult
  /\ inSection \in {Section("Test", os) : os \in SeqsUpTo(DecodeOptions, MaxOptions)}
  /\ specs \in DecodeSpecs
  /\ outType \in StructTypes
  /\ outVal = ZeroStruct(outType)
  /\ outIn = outVal
  /\ hooks = <<>>
  /\ initialDropInVars
  /\ options = <<>> /\ values = <<>>
  /\ spec = OptionSpec("", StringType, FALSE)
  /\ ret = <<>> /\ lookupName = ""

DecodeSectionHook ==
  /\ op = "decodeSectionToStruct" /\ pc = "call"
  /\ LET u == unmarshalSection(outType, inSection, specs, hooks)
     IN  /\ hooks' = u.calls
         /\ IF u.err # NoErr
              THEN res' = Errorf("", u.err) /\ pc' = "done" /\ idx' = idx
            ELSE res' = res /\ pc' = "fields" /\ idx' = 1
  /\ UNCHANGED <<op, t, tIn, dropins, secReg, slm>>
  /\ UNCHANGED <<inSection, outType, outVal, outIn>>
  /\ UNCHANGED validateVars
  /\ UNCHANGED prepareVars
  /\ UNCHANGED lookupVars

DecodeSectionField ==
  /\ op = "decodeSectionToStruct" /\ pc = "fields"
  /\ idx \in DOMAIN outType.Fields
  /\ \E d \in {decodeField(inSection, specs, outType.Fields[idx], outVal[idx])} :
         /\ outVal' = [outVal EXCEPT ![idx] = d.val]
         /\ IF d.err # NoErr
              THEN res' = Errorf(outType.Fields[idx].Name, d.err) /\ pc' = "done"
                   /\ idx' = idx
            ELSE res' = res /\ pc' = pc /\ idx' = idx + 1
  /\ UNCHANGED <<op, t, tIn, dropins, secReg, slm>>
  /\ UNCHANGED <<inSection, outType, outIn, hooks>>
  /\ UNCHANGED validateVars
  /\ UNCHANGED prepareVars
  /\ UNCHANGED lookupVars

DecodeSectionReturn ==
  /\ op = "decodeSectionToStruct" /\ pc = "fields"
  /\ idx > Len(outType.Fields)
  /\ res' = Errorf("", NoErr)
  /\ pc' = "done"
  /\ UNCHANGED <<op, t, tIn, dropins, secReg, slm, idx>>
  /\ UNCHANGED decodeVars
  /\ UNCHANGED validateVars
  /\ UNCHANGED prepareVars
  /\ UNCHANGED lookupVars

NextDecodeSection == DecodeSectionHook \/ DecodeSectionField \/ DecodeSectionReturn

SpecDecodeSection == InitDecodeSection /\ [][NextDecodeSection]_vars

(***************************************************************************)
(* decodeFileToStruct and decodeSections.  A field of the target struct is *)
(* a struct or a slice of structs of type Elem; Tag is the name part of    *)
(* its "section" tag and Required whether the tag says "required".         *)
(***************************************************************************)
ErrNoSpecification == "no specification for section"
ErrSectionMissing == "required section is missing"
ErrNumberOfSections == "invalid number of sections, expected 1"

StructKind == "struct"
StructSliceKind == "[]struct"

FileField(name, tag, required, kind, elem) ==
  [Name |-> name, Tag |-> tag, Required |-> required, Kind |-> kind, Elem |-> elem]

\* The copy of the FileSpec with lowercased keys, asked for the lowercased
\* name.
FindSection(fileSpec, name) ==
  LET hits == {mk \in DOMAIN fileSpec : ToLower(mk) = ToLower(name)}
  IN  IF hits = {} THEN [ok |-> FALSE, spec |-> <<>>]
      ELSE [ok |-> TRUE, spec |-> fileSpec[CHOOSE mk \in hits : TRUE]]

GetAll(sections, name) ==
  SelectSeq(sections, LAMBDA sec : ToLower(sec.Name) = ToLower(name))

\* The loop of decodeSections over the sections from section i on, and its
\* step after section i with result r; sliceVal shares the elements the field
\* had.
RECURSIVE decodeSectionElements(_, _, _, _, _)
decodeSectionElementsAfter(sections, sectionSpec, elem, i, r) ==
  IF r.err # NoErr THEN r
  ELSE decodeSectionElements(sections, sectionSpec, elem, r.val, i + 1)

decodeSectionElements(sections, sectionSpec, elem, sliceVal, i) ==
  IF i > Len(sections) THEN [err |-> NoErr, val |-> sliceVal]
  ELSE
    LET grown == IF Len(sliceVal) < i THEN Append(sliceVal, ZeroStruct(elem))
                 ELSE sliceVal
    IN  decodeSectionElementsAfter(sections, sectionSpec, elem, i,
          setIndex(grown, i,
                   decodeSectionToStruct(sections[i], sectionSpec, elem, grown[i])))

decodeSectionsTruncates(sections, sectionSpec, field, cur) ==
  IF field.Kind = StructSliceKind
    THEN setSlice(decodeSectionElements(sections, sectionSpec, field.Elem, <<>>, 1), <<>>)
  ELSE IF Len(sections) # 1 THEN [err |-> ErrNumberOfSections, val |-> cur]
  ELSE decodeSectionToStruct(sections[1], sectionSpec, field.Elem, cur)

\* decodeSections into a field that is a slice of structs or a struct.
decodeSections(sections, sectionSpec, field, cur) ==
  IF field.Kind = StructSliceKind
    THEN setSlice(decodeSectionElements(sections, sectionSpec, field.Elem, cur, 1), cur)
  ELSE IF Len(sections) # 1 THEN [err |-> ErrNumberOfSections, val |-> cur]
  ELSE decodeSectionToStruct(sections[1], sectionSpec, field.Elem, cur)

\* One round of the loop of decodeFileToStruct.
decodeFileField(file, fileSpec, field, cur) ==
  LET name == IF field.Tag # "" THEN field.Tag ELSE field.Name
      found == FindSection(fileSpec, name)
      sections == GetAll(file.Sections, name)
  IN  IF name = "-" THEN [err |-> NoErr, val |-> cur]
      ELSE IF ~found.ok THEN [err |-> ErrNoSpecification, val |-> cur]
      ELSE IF Len(sections) = 0
        THEN [err |-> IF field.Required THEN ErrSectionMissing ELSE NoErr,
              val |-> cur]
      ELSE decodeSections(sections, found.spec, field, cur)

(***************************************************************************)
(* The inputs of FileSpec.Decode: the slice fields of the target hold up   *)
(* to MaxElems elements before the call.                                   *)
(***************************************************************************)
MaxElems == 2

ElemType ==
  [Hook |-> "none",
   Fields |-> <<Field("Option1", "", StringKind), Field("Value", "Option2", IntKind)>>]

ElemValues == {ZeroStruct(ElemType), <<"old", 7>>}

DecodeFileSection ==
  <<OptionSpec("Option1", StringType, FALSE), OptionSpec("Option2", IntType, FALSE)>>

DecodeFileSpec == ("Test" :> DecodeFileSection) @@ ("conf" :> DecodeFileSection)

DecodeFileSections ==
  { Section("Test", <<>>),
    Section("Test", <<Option("Option1", "yes"), Option("Option2", "10")>>),
    Section("TEST", <<Option("Option2", "1")>>),
    Section("TEST", <<Option("Option2", "yes")>>),
    Section("Conf", <<Option("Option1", "yes")>>) }

FileTypes ==
  { [Fields |-> <<FileField("Test", "", req, k, ElemType)>> \o more] :
      req \in BOOLEAN,
      k \in {StructKind, StructSliceKind},
      more \in { <<>>, <<FileField("Logs", "Conf", TRUE, StructSliceKind, ElemType)>>,
                 <<FileField("Logs", "-", TRUE, StructKind, ElemType)>>,
                 <<FileField("Nope", "", FALSE, StructKind, ElemType)>> } }

\* The values a field, and a target of the type, can hold before the call.
FieldValues(field) ==
  IF field.Kind = StructKind THEN ElemValues ELSE SeqsUpTo(ElemValues, MaxElems)

FileValues(type) ==
  IF Len(type.Fields) = 1 THEN {<<v>> : v \in FieldValues(type.Fields[1])}
  ELSE {<<v, w>> : v \in FieldValues(type.Fields[1]), w \in FieldValues(type.Fields[2])}

InitDecodeFile ==
  /\ op = "Decode" /\ pc = "fields" /\ res = NoResult /\ idx = 1
  /\ t \in {[Sections |-> ss] : ss \in SeqsUpTo(DecodeFileSections, MaxSections)}
  /\ tIn = t
  /\ secReg = DecodeFileSpec
  /\ outType \in FileTypes
  /\ outVal \in FileValues(outType)
  /\ outIn = outVal
  /\ inSection = [Name |-> "", Options |-> <<>>]
  /\ hooks = <<>>
  /\ dropins = <<>> /\ slm = <<>>
  /\ specs = <<>> /\ options = <<>> /\ values = <<>>
  /\ spec = OptionSpec("", StringType, FALSE)
  /\ ret = <<>> /\ lookupName = ""

DecodeFileField ==
  /\ op = "Decode" /\ pc = "fields"
  /\ idx \in DOMAIN outType.Fields
  /\ \E d \in {decodeFileField(t, secReg, outType.Fields[idx], outVal[idx])} :
         /\ outVal' = [outVal EXCEPT ![idx] = d.val]
         /\ IF d.err # NoErr
              THEN res' = Errorf(outType.Fields[idx].Name, d.err) /\ pc' = "done"
                   /\ idx' = idx
            ELSE res' = res /\ pc' = pc /\ idx' = idx + 1
  /\ UNCHANGED <<op, t, tIn, dropins, secReg, slm>>
  /\ UNCHANGED <<inSection, outType, outIn, hooks>>
  /\ UNCHANGED validateVars
  /\ UNCHANGED prepareVars
  /\ UNCHANGED lookupVars

DecodeFileReturn ==
  /\ op = "Decode" /\ pc = "fields"
  /\ idx > Len(outType.Fields)
  /\ res' = Errorf("", NoErr)
  /\ pc' = "done"
  /\ UNCHANGED <<op, t, tIn, dropins, secReg, slm, idx>>
  /\ UNCHANGED decodeVars
  /\ UNCHANGED validateVars
  /\ UNCHANGED prepareVars
  /\ UNCHANGED lookupVars

NextDecodeFile == DecodeFileField \/ DecodeFileReturn

SpecDecodeFile == InitDecodeFile /\ [][NextDecodeFile]_vars

(***************************************************************************)
(* ConvertToFile: encodeFile, encodeSection and encodeBasic.  A pointer    *)
(* field points to an int, <<>> being nil; a nil slice and a nil map are   *)
(* <<>> as well.                                                           *)
(***************************************************************************)
PtrIntKind == "*int"
MapKind == "map"

ErrUnsupportedType == "unsupported basic type"

\* strconv.FormatBool
FormatBool(b) == IF b THEN "true" ELSE "false"

\* fmt.Sprintf("%d", x) on the numbers the model uses.
FormatInt(n) ==
  CASE n = 0 -> "0"
    [] n = 1 -> "1"
    [] n = 10 -> "10"
    [] n = 0 - 1 -> "-1"
    [] OTHER -> "7"

RECURSIVE encodeBasic(_, _, _, _, _)

encodeElementsSparse(val, kind, name, result, i) ==
  LET kept == SelectSeq(val, LAMBDA x : x # Zero(ElemKind(kind)))
  IN  [err |-> NoErr,
       opts |-> result \o [j \in DOMAIN kept |->
                  Option(name, IF ElemKind(kind) = IntKind THEN FormatInt(kept[j])
                               ELSE kept[j])]]

\* case reflect.Slice: the loop over the elements from element i on, each
\* encoded with includeZeroValues set.
RECURSIVE encodeElements(_, _, _, _, _)
encodeElements(val, kind, name, result, i) ==
  IF i > Len(val) THEN [err |-> NoErr, opts |-> result]
  ELSE LET e == encodeBasic(val[i], ElemKind(kind), name, result, TRUE)
       IN  IF e.err # NoErr THEN e
           ELSE encodeElements(val, kind, name, e.opts, i + 1)

encodeBasic(val, kind, name, result, includeZeroValues) ==
  IF ~includeZeroValues /\ val = Zero(kind) THEN [err |-> NoErr, opts |-> result]
  ELSE CASE kind = PtrIntKind ->
              encodeBasic(val[1], IntKind, name, result, includeZeroValues)
         [] kind \in SliceKinds -> encodeElements(val, kind, name, result, 1)
         [] kind = BoolKind ->
              [err |-> NoErr, opts |-> Append(result, Option(name, FormatBool(val)))]
         [] kind = IntKind ->
              [err |-> NoErr, opts |-> Append(result, Option(name, FormatInt(val)))]
         [] kind = StringKind ->
              [err |-> NoErr, opts |-> Append(result, Option(name, val))]
         [] OTHER -> [err |-> ErrUnsupportedType, opts |-> result]

\* The loop of encodeSection over the fields of a struct from field i on.
RECURSIVE encodeSectionFields(_, _, _, _)
encodeSectionFields(type, val, opts, i) ==
  IF i > Len(type.Fields) THEN [err |-> NoErr, opts |-> opts]
  ELSE
    LET field == type.Fields[i]
        name == IF field.Tag # "" THEN field.Tag ELSE field.Name
    IN  IF ~Exported(field.Name) \/ name = "-"
          THEN encodeSectionFields(type, val, opts, i + 1)
        ELSE LET e == encodeBasic(val[i], field.Kind, name, opts, FALSE)
             IN  IF e.err # NoErr THEN e
                 ELSE encodeSectionFields(type, val, e.opts, i + 1)

encodeSectionAlways(val, type, name, result) ==
  LET e == encodeSectionFields(type, val, <<>>, 1)
  IN  [err |-> e.err, opts |-> e.opts,
       file |-> IF e.err = NoErr
                  THEN [result EXCEPT !.Sections = Append(@, Section(name, e.opts))]
                ELSE result]

\* encodeSection of one struct with opts == nil: the section is appended
\* when it has options.
encodeSection(val, type, name, result) ==
  LET e == encodeSectionFields(type, val, <<>>, 1)
  IN  [err |-> e.err, opts |-> e.opts,
       file |-> IF e.err = NoErr /\ Len(e.opts) > 0
                  THEN [result EXCEPT !.Sections = Append(@, Section(name, e.opts))]
                ELSE result]

\* The structs encodeFile hands to encodeSection, in order: one for a struct
\* field, one per element for a slice field.
RECURSIVE EncodedStructs(_, _, _)
EncodedStructs(type, val, i) ==
  IF i > Len(type.Fields) THEN <<>>
  ELSE
    LET field == type.Fields[i]
        name == IF field.Tag # "" THEN field.Tag ELSE field.Name
        here == IF ~Exported(field.Name) \/ name = "-" THEN <<>>
                ELSE IF field.Kind = StructSliceKind
                  THEN [k \in DOMAIN val[i] |->
                          [Name |-> name, Type |-> field.Elem, Val |-> val[i][k]]]
                ELSE <<[Name |-> name, Type |-> field.Elem, Val |-> val[i]]>>
    IN  here \o EncodedStructs(type, val, i + 1)

(***************************************************************************)
(* The inputs of ConvertToFile.                                            *)
(***************************************************************************)
EncodeKinds == ScalarKinds \cup SliceKinds \cup {PtrIntKind, MapKind}

EncodeValues(kind) ==
  CASE kind = StringKind -> {"", "test"}
    [] kind = IntKind -> {0, 10}
    [] kind = BoolKind -> BOOLEAN
    [] kind = StringSliceKind -> {<<>>, <<"foo">>, <<"", "foo">>}
    [] kind = IntSliceKind -> {<<>>, <<10>>, <<0, 10>>}
    [] kind = PtrIntKind -> {<<>>, <<0>>, <<10>>}
    [] OTHER -> {<<>>, <<"a">>}

EncodeElemTypes ==
  { [Hook |-> "none", Fields |-> <<Field("Option1", "", k)>> \o more] :
      k \in EncodeKinds,
      more \in { <<>>, <<Field("Value", "Option2", IntKind)>>,
                 <<Field("Value", "-", IntKind)>>,
                 <<Field("internal", "Option2", IntKind)>> } }

StructValues(type) ==
  IF Len(type.Fields) = 1 THEN {<<v>> : v \in EncodeValues(type.Fields[1].Kind)}
  ELSE {<<v, w>> : v \in EncodeValues(type.Fields[1].Kind),
                   w \in EncodeValues(type.Fields[2].Kind)}

EncodeTypes ==
  { [Fields |-> <<FileField("Test", tag, FALSE, k, elem)>> \o more] :
      tag \in {"", "Conf"},
      k \in {StructKind, StructSliceKind},
      elem \in EncodeElemTypes,
      more \in { <<>>, <<FileField("Conf", "", FALSE, StructKind, ElemType)>>,
                 <<FileField("Nope", "-", FALSE, StructKind, ElemType)>>,
                 <<FileField("internal", "", FALSE, StructKind, ElemType)>> } }

EncodeFieldValues(field) ==
  IF field.Kind = StructKind THEN StructValues(field.Elem)
  ELSE SeqsUpTo(StructValues(field.Elem), MaxElems)

TargetValues(type) ==
  IF Len(type.Fields) = 1 THEN {<<v>> : v \in EncodeFieldValues(type.Fields[1])}
  ELSE {<<v, w>> : v \in EncodeFieldValues(type.Fields[1]),
                   w \in {<<"", 0>>, <<"test", 10>>}}

InitEncode ==
  /\ op = "ConvertToFile" /\ pc = "fields" /\ res = NoResult /\ idx = 0
  /\ outType \in EncodeTypes
  /\ outVal \in TargetValues(outType)
  /\ outIn = outVal
  /\ t = [Sections |-> <<>>] /\ tIn = t
  /\ options = <<>>
  /\ ret = <<>>
  /\ inSection = [Name |-> "", Options |-> <<>>]
  /\ hooks = <<>>
  /\ dropins = <<>> /\ slm = <<>> /\ secReg = <<>>
  /\ specs = <<>> /\ values = <<>>
  /\ spec = OptionSpec("", StringType, FALSE)
  /\ lookupName = ""

\* encodeFile: the next call of encodeSection for a struct; options holds
\* the options encoded for it.
EncodeSectionCall ==
  /\ op = "ConvertToFile" /\ pc = "fields"
  /\ idx < Len(EncodedStructs(outType, outVal, 1))
  /\ LET s == EncodedStructs(outType, outVal, 1)[idx + 1]
         e == encodeSection(s.Val, s.Type, s.Name, t)
     IN  IF e.err # NoErr
           THEN /\ res' = Errorf(s.Name, e.err) /\ pc' = "done"
                /\ UNCHANGED <<t, idx, options>>
         ELSE /\ t' = e.file /\ options' = e.opts /\ idx' = idx + 1
              /\ UNCHANGED <<res, pc>>
  /\ UNCHANGED <<op, tIn, dropins, secReg, slm>>
  /\ UNCHANGED <<specs, values, spec>>
  /\ UNCHANGED decodeVars
  /\ UNCHANGED prepareVars
  /\ UNCHANGED lookupVars

\* ConvertToFile returns the file when encodeFile returned no error.
EncodeReturn ==
  /\ op = "ConvertToFile" /\ pc = "fields"
  /\ idx = Len(EncodedStructs(outType, outVal, 1))
  /\ res' = Errorf("", NoErr)
  /\ ret' = <<t>>
  /\ pc' = "done"
  /\ UNCHANGED <<op, t, tIn, dropins, secReg, slm, idx>>
  /\ UNCHANGED validateVars
  /\ UNCHANGED decodeVars
  /\ UNCHANGED lookupVars

NextEncode == EncodeSectionCall \/ EncodeReturn

SpecEncode == InitEncode /\ [][NextEncode]_vars

(***************************************************************************)
(* A value encoded with EncodeToOptions, its texts checked with checkValue *)
(* and decoded with DecodeValues into a zero target of the same kind.  A   *)
(* time.Duration is of kind int, its value the number of nanoseconds.      *)
(***************************************************************************)
RoundTripInts == {0 - 1, 0, 1, 7, 10}
RoundTripDurations == {0, 1, 10}

\* The kind of the field, the option type it is registered with, and its
\* value.
RoundTripInputs ==
  {[Kind |-> BoolKind, Type |-> BoolType, Val |-> b] : b \in BOOLEAN}
    \cup {[Kind |-> IntKind, Type |-> IntType, Val |-> n] : n \in RoundTripInts}
    \cup {[Kind |-> IntSliceKind, Type |-> IntSliceType, Val |-> ns] :
            ns \in SeqsUpTo(RoundTripInts, MaxElems)}
    \cup {[Kind |-> IntKind, Type |-> DurationType, Val |-> n] : n \in RoundTripDurations}
    \cup {[Kind |-> IntSliceKind, Type |-> DurationSliceType, Val |-> ns] :
            ns \in SeqsUpTo(RoundTripDurations, MaxElems)}

\* The error of the first text the type check refuses.
checkTexts(texts, optType) ==
  LET bad == {i \in DOMAIN texts : checkValue(texts[i], optType) # NoErr}
  IN  IF bad = {} THEN NoErr
      ELSE checkValue(texts[CHOOSE i \in bad : \A j \in bad : i <= j], optType)

InitRoundTrip ==
  /\ op = "RoundTrip" /\ pc = "encode" /\ res = NoResult
  /\ \E in \in RoundTripInputs :
       /\ outType = [Kind |-> in.Kind]
       /\ spec = OptionSpec("Option1", in.Type, FALSE)
       /\ outIn = in.Val
       /\ outVal = Zero(in.Kind)
  /\ options = <<>> /\ values = <<>> /\ specs = <<>>
  /\ ret = <<>>
  /\ initialDropInVars
  /\ inSection = [Name |-> "", Options |-> <<>>]
  /\ hooks = <<>>
  /\ lookupName = ""

\* EncodeToOptions(name, x)
RoundTripEncode ==
  /\ op = "RoundTrip" /\ pc = "encode"
  /\ options' = encodeBasic(outIn, outType.Kind, spec.Name, <<>>, FALSE).opts
  /\ pc' = "check"
  /\ UNCHANGED <<op, res, specs, values, spec>>
  /\ UNCHANGED <<t, tIn, dropins, secReg, slm, idx>>
  /\ UNCHANGED decodeVars
  /\ UNCHANGED prepareVars
  /\ UNCHANGED lookupVars

\* checkValue on every text that was rendered.
RoundTripCheck ==
  /\ op = "RoundTrip" /\ pc = "check" /\ options # <<>>
  /\ values' = [k \in DOMAIN options |-> options[k].Value]
  /\ res' = Errorf(spec.Name, checkTexts(values', spec.Type))
  /\ pc' = "decode"
  /\ UNCHANGED <<op, options, specs, spec>>
  /\ UNCHANGED <<t, tIn, dropins, secReg, slm, idx>>
  /\ UNCHANGED decodeVars
  /\ UNCHANGED prepareVars
  /\ UNCHANGED lookupVars

\* DecodeValues(data, specType, receiver)
RoundTripDecode ==
  /\ op = "RoundTrip" /\ pc = "decode"
  /\ \E d \in {decode(values, spec.Type, outType.Kind, outVal)} :
       /\ outVal' = d.val
       /\ ret' = <<d.err>>
  /\ pc' = "done"
  /\ UNCHANGED <<op, res>>
  /\ UNCHANGED validateVars
  /\ UNCHANGED <<t, tIn, dropins, secReg, slm, idx>>
  /\ UNCHANGED <<inSection, outType, outIn, hooks>>
  /\ UNCHANGED lookupVars

\* A zero value is rendered as no option: nothing to check or decode.
RoundTripNothing ==
  /\ op = "RoundTrip" /\ pc = "check" /\ options = <<>>
  /\ pc' = "done"
  /\ UNCHANGED <<op, res>>
  /\ UNCHANGED validateVars
  /\ UNCHANGED <<t, tIn, dropins, secReg, slm, idx>>
  /\ UNCHANGED decodeVars
  /\ UNCHANGED prepareVars
  /\ UNCHANGED lookupVars

NextRoundTrip ==
  RoundTripEncode \/ RoundTripCheck \/ RoundTripDecode \/ RoundTripNothing

SpecRoundTrip == InitRoundTrip /\ [][NextRoundTrip]_vars

(***************************************************************************)
(* DropInSearchPaths(unitName, rootDir).  A unit name is the sequence of   *)
(* its characters; a run of characters other than "-" and "." may stand as *)
(* one element.  Paths are strings.                                        *)
(***************************************************************************)
MaxNameLen == 4

RECURSIVE Text(_)
Text(cs) == IF cs = <<>> THEN "" ELSE Head(cs) \o Text(Tail(cs))

\* filepath.Ext: the suffix from the last dot on, empty without a dot.
Ext(cs) ==
  LET dots == {i \in DOMAIN cs : cs[i] = "."}
  IN  IF dots = {} THEN <<>>
      ELSE SubSeq(cs, CHOOSE i \in dots : \A j \in dots : j <= i, Len(cs))

\* strings.TrimSuffix(s, suffix), suffix being one of s.
TrimSuffix(cs, suffix) == SubSeq(cs, 1, Len(cs) - Len(suffix))

\* strings.TrimLeft(s, ".")
RECURSIVE TrimLeftDots(_)
TrimLeftDots(cs) ==
  IF cs # <<>> /\ Head(cs) = "." THEN TrimLeftDots(Tail(cs)) ELSE cs

Split(cs) ==
  LET dashes == {i \in DOMAIN cs : cs[i] = "-"}
  IN  IF dashes = {} THEN <<cs>>
      ELSE LET d == CHOOSE i \in dashes : \A j \in dashes : i <= j
           IN  <<SubSeq(cs, 1, d - 1)>> \o <<SubSeq(cs, d + 1, Len(cs))>>

\* strings.SplitAfter(s, "-"): the parts end after each dash; the last part
\* is what follows the last dash, empty when s ends with one.
RECURSIVE SplitAfter(_)
SplitAfter(cs) ==
  LET dashes == {i \in DOMAIN cs : cs[i] = "-"}
  IN  IF dashes = {} THEN <<cs>>
      ELSE LET d == CHOOSE i \in dashes : \A j \in dashes : i <= j
           IN  <<SubSeq(cs, 1, d)>> \o SplitAfter(SubSeq(cs, d + 1, Len(cs)))

\* strings.Join(parts, "")
RECURSIVE JoinParts(_)
JoinParts(parts) ==
  IF parts = <<>> THEN <<>> ELSE Head(parts) \o JoinParts(Tail(parts))

\* filepath.Join(dir, elem) for an element without separator: an empty dir
\* is left out and the cleaned path has one separator between the two.
filepathJoin(dir, elem) ==
  IF dir = "" THEN elem
  ELSE (CASE dir = "/lib/" -> "/lib" [] OTHER -> dir) \o "/" \o elem

NameChars == {"a", "-", "."}

TestUnitName == <<"foo", "-", "bar", "-", "baz", ".", "task">>

UnitNames == SeqsUpTo(NameChars, MaxNameLen) \cup {TestUnitName}

RootDirs == {"/lib/", "/etc", ""}

InitSearchPaths ==
  /\ op = "DropInSearchPaths" /\ pc = "ext" /\ res = NoResult
  /\ values \in UnitNames
  /\ lookupName \in RootDirs
  /\ ret = <<>>
  /\ initialDropInVars
  /\ options = <<>> /\ specs = <<>>
  /\ spec = OptionSpec("", StringType, FALSE)
  /\ initialDecodeVars

\* add <rootDir>/task.d
SearchPathsExt ==
  /\ op = "DropInSearchPaths" /\ pc = "ext"
  /\ ret' = IF Len(Ext(values)) > 1
              THEN Append(ret, filepathJoin(lookupName,
                                            Text(TrimLeftDots(Ext(values))) \o ".d"))
            ELSE ret
  /\ pc' = "parts" /\ idx' = 0
  /\ UNCHANGED <<op, res, t, tIn, dropins, secReg, slm>>
  /\ UNCHANGED validateVars
  /\ UNCHANGED decodeVars
  /\ UNCHANGED lookupVars

\* add <rootDir>/foo-.task.d and <rootDir>/foo-bar-.task.d
SearchPathsPart ==
  /\ op = "DropInSearchPaths" /\ pc = "parts"
  /\ \E parts \in {SplitAfter(TrimSuffix(values, Ext(values)))} :
       /\ idx < Len(parts) - 1
       /\ ret' = Append(ret, filepathJoin(lookupName,
                   Text(JoinParts(SubSeq(parts, 1, idx + 1))) \o Text(Ext(values)) \o ".d"))
  /\ idx' = idx + 1
  /\ UNCHANGED <<op, pc, res, t, tIn, dropins, secReg, slm>>
  /\ UNCHANGED validateVars
  /\ UNCHANGED decodeVars
  /\ UNCHANGED lookupVars

\* add <rootDir>/foo-bar-baz.task.d
SearchPathsReturn ==
  /\ op = "DropInSearchPaths" /\ pc = "parts"
  /\ idx >= Len(SplitAfter(TrimSuffix(values, Ext(values)))) - 1
  /\ ret' = Append(ret, filepathJoin(lookupName, Text(values) \o ".d"))
  /\ pc' = "done" /\ res' = Errorf("", NoErr)
  /\ UNCHANGED <<op, idx, t, tIn, dropins, secReg, slm>>
  /\ UNCHANGED validateVars
  /\ UNCHANGED decodeVars
  /\ UNCHANGED lookupVars

NextSearchPaths == SearchPathsExt \/ SearchPathsPart \/ SearchPathsReturn

SpecSearchPaths == InitSearchPaths /\ [][NextSearchPaths]_vars

\* The whole of DropInSearchPaths.
DropInSearchPaths(unitName, rootDir) ==
  LET ext == Ext(unitName)
      parts == SplitAfter(TrimSuffix(unitName, ext))
  IN  (IF Len(ext) > 1
         THEN <<filepathJoin(rootDir, Text(TrimLeftDots(ext)) \o ".d")>>
       ELSE <<>>)
      \o [i \in 1..(Len(parts) - 1) |->
            filepathJoin(rootDir, Text(JoinParts(SubSeq(parts, 1, i))) \o Text(ext) \o ".d")]
      \o <<filepathJoin(rootDir, Text(unitName) \o ".d")>>

(***************************************************************************)
(* SearchDropinFiles(unitName, searchPath).  readDir(sp) answers with the  *)
(* entries of the directory, with os.ErrNotExist or with another error.    *)
(***************************************************************************)
ErrNotExist == "ErrNotExist"
ErrPermission == "ErrPermission"

fakeFile(name, dir) == [Name |-> name, IsDir |-> dir]

\* strings.HasSuffix(n, DropInExt) on the file names the model uses.
HasSuffixDropInExt(n) ==
  n \in {"10-overwrite.conf", "20-task.d.conf", "30-foo-task.d.conf", "dir.conf", ".conf"}

\* The place of a file name in the byte-wise order of sort.StringSlice.
NameRank(n) ==
  CASE n = ".conf" -> 1
    [] n = "10-overwrite.conf" -> 2
    [] n = "20-task.d.conf" -> 3
    [] n = "20-task.d.conf.bak" -> 4
    [] n = "30-foo-task.d.conf" -> 5
    [] n = "dir.conf" -> 6
    [] n = "test" -> 7
    [] OTHER -> 8

\* sort.StringSlice(order).Sort() of the keys.
RECURSIVE sortNames(_)
sortNames(S) ==
  IF S = {} THEN <<>>
  ELSE LET n == CHOOSE x \in S : \A y \in S : NameRank(x) <= NameRank(y)
       IN  <<n>> \o sortNames(S \ {n})

\* The unit paths of every search path, in the order they are read.
RECURSIVE unitPaths(_, _)
unitPaths(unitName, searchPath) ==
  IF searchPath = <<>> THEN <<>>
  ELSE DropInSearchPaths(unitName, Head(searchPath))
       \o unitPaths(unitName, Tail(searchPath))

RECURSIVE recordFilesKeepFirst(_, _, _)
recordFilesKeepFirst(files, sp, dirFiles) ==
  IF dirFiles = <<>> THEN files
  ELSE LET file == Head(dirFiles)
       IN  recordFilesKeepFirst(
             IF ~file.IsDir /\ HasSuffixDropInExt(file.Name)
               THEN files @@ (file.Name :> filepathJoin(sp, file.Name))
             ELSE files,
             sp, Tail(dirFiles))

\* The loop over dirFiles: files[n] = filepath.Join(sp, n) for every entry
\* that is no directory and ends in DropInExt.
RECURSIVE recordFiles(_, _, _)
recordFiles(files, sp, dirFiles) ==
  IF dirFiles = <<>> THEN files
  ELSE LET file == Head(dirFiles)
       IN  recordFiles(
             IF ~file.IsDir /\ HasSuffixDropInExt(file.Name)
               THEN (file.Name :> filepathJoin(sp, file.Name)) @@ files
             ELSE files,
             sp, Tail(dirFiles))

\* What readDir answers for a directory: an error, or the entries.  The
\* first three lists are those of TestSearchDropinFiles.
DirContents ==
  { [err |-> ErrNotExist, files |-> <<>>],
    [err |-> ErrPermission, files |-> <<>>],
    [err |-> NoErr, files |-> << fakeFile("test", FALSE), fakeFile("dir.conf", TRUE),
                                 fakeFile("10-overwrite.conf", FALSE),
                                 fakeFile("20-task.d.conf", FALSE) >>],
    [err |-> NoErr, files |-> << fakeFile("test2", FALSE),
                                 fakeFile("10-overwrite.conf", FALSE),
                                 fakeFile("30-foo-task.d.conf", FALSE) >>],
    [err |-> NoErr, files |-> << fakeFile("10-overwrite.conf", FALSE) >>],
    [err |-> NoErr, files |-> << fakeFile("dir.conf", FALSE), fakeFile(".conf", FALSE),
                                 fakeFile("20-task.d.conf.bak", FALSE),
                                 fakeFile("10-overwrite.conf", TRUE) >>] }

\* The file system of TestSearchDropinFiles.
TestReadDir ==
  [sp \in Range(DropInSearchPaths(TestUnitName, "/lib/")) |->
     CASE sp = "/lib/task.d" ->
            [err |-> NoErr, files |-> << fakeFile("test", FALSE), fakeFile("dir.conf", TRUE),
                                         fakeFile("10-overwrite.conf", FALSE),
                                         fakeFile("20-task.d.conf", FALSE) >>]
       [] sp = "/lib/foo-.task.d" ->
            [err |-> NoErr, files |-> << fakeFile("test2", FALSE),
                                         fakeFile("10-overwrite.conf", FALSE),
                                         fakeFile("30-foo-task.d.conf", FALSE) >>]
       [] sp = "/lib/foo-bar-baz.task.d" ->
            [err |-> NoErr, files |-> << fakeFile("10-overwrite.conf", FALSE) >>]
       [] OTHER -> [err |-> ErrNotExist, files |-> <<>>]]

\* The calls: the one of the test, and short unit names under two search
\* paths, one of them with a trailing dash.
SearchCalls ==
  { [unitName |-> TestUnitName, searchPath |-> <<"/lib/">>],
    [unitName |-> <<"a", "-">>, searchPath |-> <<"/etc", "/lib/">>],
    [unitName |-> <<"a", ".", "b">>, searchPath |-> <<"/etc", "/lib/">>] }

InitSearchDropinFiles ==
  /\ op = "SearchDropinFiles" /\ pc = "readDir" /\ res = NoResult
  /\ \E c \in SearchCalls :
       /\ values = c.unitName /\ specs = c.searchPath
       /\ ret = unitPaths(c.unitName, c.searchPath)
  /\ secReg \in [Range(ret) -> DirContents]
  /\ slm = <<>> /\ idx = 0 /\ options = <<>>
  /\ t = <<>> /\ tIn = <<>> /\ dropins = <<>>
  /\ spec = OptionSpec("", StringType, FALSE)
  /\ lookupName = ""
  /\ initialDecodeVars

\* dirFiles, err := readDir(sp) and the loop over dirFiles
SearchDropinRead ==
  /\ op = "SearchDropinFiles" /\ pc = "readDir" /\ idx < Len(ret)
  /\ \E d \in {secReg[ret[idx + 1]]} :
       IF d.err = ErrNotExist
         THEN UNCHANGED <<pc, res, slm>>
       ELSE IF d.err # NoErr
         THEN pc' = "done" /\ res' = Errorf("", d.err) /\ UNCHANGED slm
       ELSE slm' = recordFiles(slm, ret[idx + 1], d.files) /\ UNCHANGED <<pc, res>>
  /\ idx' = idx + 1
  /\ UNCHANGED <<op, t, tIn, dropins, secReg>>
  /\ UNCHANGED validateVars
  /\ UNCHANGED prepareVars
  /\ UNCHANGED lookupVars
  /\ UNCHANGED decodeVars

\* sort the names, convert them to their paths and return
SearchDropinReturn ==
  /\ op = "SearchDropinFiles" /\ pc = "readDir" /\ idx = Len(ret)
  /\ \E order \in {sortNames(DOMAIN slm)} :
       options' = [i \in DOMAIN order |-> slm[order[i]]]
  /\ pc' = "done" /\ res' = Errorf("", NoErr)
  /\ UNCHANGED <<op, specs, values, spec>>
  /\ UNCHANGED dropInVars
  /\ UNCHANGED prepareVars
  /\ UNCHANGED lookupVars
  /\ UNCHANGED decodeVars

NextSearchDropinFiles == SearchDropinRead \/ SearchDropinReturn

SpecSearchDropinFiles == InitSearchDropinFiles /\ [][NextSearchDropinFiles]_vars

(***************************************************************************)
(* ParseFromEnv(prefix, env, reg).  An environment entry is the list of    *)
(* the parts of its name between underscores and its value; toMap(env)     *)
(* is the set of the entries, visited in any order.                        *)
(***************************************************************************)
MaxEnvIdx == 2

ErrInvalidIndex == "invalid index"
ErrInvalidOptionName == "invalid option name"

EnvEntry(parts, value) == [Parts |-> parts, Value |-> value]

\* strconv.ParseInt(s, 10, 0) on the name parts the model uses: <<n>>, or
\* <<>> for an error.
ParseIndex(s) ==
  CASE s = "0" -> <<0>>
    [] s = "1" -> <<1>>
    [] s = "2" -> <<2>>
    [] s = "3" -> <<3>>
    [] OTHER -> <<>>

IndexText(i) == CASE i = 1 -> "1" [] i = 2 -> "2" [] OTHER -> "3"

\* shlex.Split on the values the model uses.
shlexSplit(value) ==
  CASE value = "first second" -> <<"first", "second">>
    [] value = "third forth" -> <<"third", "forth">>
    [] value = "one value" -> <<"one", "value">>
    [] value = "" -> <<>>
    [] OTHER -> <<value>>

EqualFold(a, b) == ToLower(a) = ToLower(b)

\* The section an entry goes to, once its option is known: the options are
\* appended to section sectionIdx of the sections named sectionName.
envAppend(sections, sectionName, sectionIdx, optSpec, value) ==
  LET secs == IF sectionName \in DOMAIN sections THEN sections[sectionName] ELSE <<>>
      vals == IF IsSliceType(optSpec.Type) THEN shlexSplit(value) ELSE <<value>>
      new == [i \in DOMAIN vals |-> Option(optSpec.Name, vals[i])]
      sec == secs[sectionIdx + 1]
  IN  (sectionName :> [secs EXCEPT ![sectionIdx + 1] =
                         Section(sec.Name, sec.Options \o new)])
      @@ sections

\* The switch of the loop body: section sectionIdx of the sections named
\* sectionName, made when it is the next one.
envSection(sections, sectionName, sectionIdx) ==
  LET secs == IF sectionName \in DOMAIN sections THEN sections[sectionName] ELSE <<>>
  IN  IF Len(secs) = sectionIdx
        THEN [err |-> NoErr,
              sections |-> (sectionName :> Append(secs, Section(sectionName, <<>>)))
                           @@ sections]
      ELSE IF Len(secs) < sectionIdx
        THEN [err |-> ErrInvalidIndex, sections |-> sections]
      ELSE [err |-> NoErr, sections |-> sections]

\* One round of the loop over the environment for entry e: the error it
\* returns with, and the sections after it.
parseEnvEntry(sections, prefix, e, reg) ==
  LET parts == e.Parts
      skip == [err |-> NoErr, sections |-> sections]
  IN  IF ~EqualFold(parts[1], prefix) \/ Len(parts) < 3 THEN skip
      ELSE
        LET sectionName == ToLower(parts[2])
            parsed == IF Len(parts) >= 4 THEN ParseIndex(parts[3]) ELSE <<>>
            sectionIdx == IF parsed # <<>> THEN parsed[1] ELSE 0
            optName == IF parsed # <<>> THEN parts[4] ELSE parts[3]
            optReg == OptionsForSection(reg, sectionName)
        IN  IF ~optReg.ok THEN skip
            ELSE
              LET s == envSection(sections, sectionName, sectionIdx)
                  o == GetOption(optReg.reg[1], ToLower(optName))
              IN  IF s.err # NoErr THEN s
                  ELSE IF ~o.ok
                    THEN [err |-> ErrInvalidOptionName, sections |-> s.sections]
                  ELSE [err |-> NoErr,
                        sections |-> envAppend(s.sections, sectionName, sectionIdx,
                                               o.spec, e.Value)]

\* The sections of the map in the order ord of its keys.
RECURSIVE envSections(_, _)
envSections(sections, ord) ==
  IF ord = <<>> THEN <<>>
  ELSE sections[Head(ord)] \o envSections(sections, Tail(ord))

\* The registry of TestParseEnv.
EnvSectionSpec ==
  << OptionSpec("String", StringType, FALSE),
     OptionSpec("Slice", StringSliceType, FALSE) >>

EnvFileSpec == ("foo" :> <<EnvSectionSpec>>) @@ ("Bar" :> <<EnvSectionSpec>>)

\* The entries of TestParseEnv, the numbered entries of section foo up to
\* MaxEnvIdx, an entry of an unregistered section and one of an unregistered
\* option.
EnvUniverse ==
  { EnvEntry(<<"SOME", "OTHER", "ENV">>, "test"),
    EnvEntry(<<"TEST", "FOO", "STRING">>, "one value"),
    EnvEntry(<<"TEST", "FOO", "SLICE">>, "first second"),
    EnvEntry(<<"TEST", "BAR", "Slice">>, "first second"),
    EnvEntry(<<"TEST", "BAR", "1", "Slice">>, "third forth"),
    EnvEntry(<<"TEST", "NOPE", "STRING">>, "x"),
    EnvEntry(<<"TEST", "FOO", "UNKNOWN">>, "x") }
  \cup { EnvEntry(<<"TEST", "FOO", IndexText(i), "STRING">>, IndexText(i)) :
           i \in 1..MaxEnvIdx }

InitParseFromEnv ==
  /\ op = "ParseFromEnv" /\ pc = "range" /\ res = NoResult
  /\ outIn \in SUBSET EnvUniverse
  /\ dropins = outIn
  /\ secReg = EnvFileSpec
  /\ lookupName = "TEST"
  /\ slm = <<>>
  /\ t = <<>> /\ tIn = <<>> /\ idx = 0
  /\ options = <<>> /\ specs = <<>> /\ values = <<>>
  /\ spec = OptionSpec("", StringType, FALSE)
  /\ ret = <<>>
  /\ inSection = [Name |-> "", Options |-> <<>>]
  /\ outType = [Hook |-> "none", Fields |-> <<>>]
  /\ outVal = <<>> /\ hooks = <<>>

\* for varName, varValue := range toMap(env)
ParseFromEnvEntry ==
  /\ op = "ParseFromEnv" /\ pc = "range"
  /\ \E e \in dropins :
       \E r \in {parseEnvEntry(slm, lookupName, e, secReg)} :
         /\ dropins' = dropins \ {e}
         /\ slm' = r.sections
         /\ IF r.err # NoErr
              THEN pc' = "done" /\ res' = Errorf("", r.err)
            ELSE UNCHANGED <<pc, res>>
  /\ UNCHANGED <<op, t, tIn, secReg, idx>>
  /\ UNCHANGED validateVars
  /\ UNCHANGED prepareVars
  /\ UNCHANGED lookupVars
  /\ UNCHANGED decodeVars

\* for _, secs := range sections; return envFile, nil
ParseFromEnvReturn ==
  /\ op = "ParseFromEnv" /\ pc = "range" /\ dropins = {}
  /\ \E ord \in Perms(DOMAIN slm) :
       t' = <<[Sections |-> envSections(slm, ord)]>>
  /\ pc' = "done" /\ res' = Errorf("", NoErr)
  /\ UNCHANGED <<op, tIn, dropins, secReg, slm, idx>>
  /\ UNCHANGED validateVars
  /\ UNCHANGED prepareVars
  /\ UNCHANGED lookupVars
  /\ UNCHANGED decodeVars

NextParseFromEnv == ParseFromEnvEntry \/ ParseFromEnvReturn

SpecParseFromEnv == InitParseFromEnv /\ [][NextParseFromEnv]_vars

(***************************************************************************)
(* Definitions the claims are stated with.                                 *)
(***************************************************************************)
Done(o) == op = o /\ pc = "done"

\* The call returned an error value.
ReturnedError == res.err \notin {"none", NoErr, Panic}

\* The values of the options named n (lowercased) in a list of options.
RECURSIVE ValuesOf(_, _)
ValuesOf(opts, n) ==
  IF opts = <<>> THEN <<>>
  ELSE (IF ToLower(Head(opts).Name) = n THEN <<Head(opts).Value>> ELSE <<>>)
       \o ValuesOf(Tail(opts), n)

\* The number of sections of the file whose name is n, ignoring case.
Occurrences(file, n) ==
  Cardinality({i \in DOMAIN file.Sections : ToLower(file.Sections[i].Name) = ToLower(n)})

\* The registry entry (a SectionSpec) defines the option name, ignoring case.
Defines(sectionSpec, name) ==
  \E i \in DOMAIN sectionSpec : ToLower(sectionSpec[i].Name) = ToLower(name)

\* The type the registry entry gives the option name.
ListOption(sectionSpec, name) ==
  \E i \in DOMAIN sectionSpec :
    /\ ToLower(sectionSpec[i].Name) = ToLower(name)
    /\ sectionSpec[i].Type \in {"[]string", "[]int", "[]float", "[]duration"}

\* The drop-in sections the call has reached: the loops visit them in order
\* and stop at the first one that ends the call.
Reached == {k \in DOMAIN dropins : k <= idx}

TestFile == [Sections |-> <<TestBase>>]

(***************************************************************************)
(* C1: applying the drop-ins d1, d2 of TestApplyDropIns to the file        *)
(* Test{Single=TSK, Slice1=TSK} returns no error and leaves the options    *)
(* Single=d1, Slice2=d1, Slice2=d1, Slice1=d2, in this order, in every     *)
(* execution.                                                              *)
(***************************************************************************)
C1_TestApplyDropIns ==
  (/\ Done("ApplyDropIns")
   /\ tIn = TestFile
   /\ dropins = <<TestD1, TestD2>>
   /\ secReg = ("test" :> <<TestSpec>>) @@ ("Conf" :> <<>>))
  => /\ res.err = NoErr
     /\ t.Sections[1].Options =
          << Option("Single", "d1"), Option("Slice2", "d1"),
             Option("Slice2", "d1"), Option("Slice1", "d2") >>

(***************************************************************************)
(* C2: each drop-in section is merged into the section state the earlier   *)
(* ones left, and after the merge the values of every option name N of the *)
(* drop-in section are: the drop-in's values if N is not a list option;    *)
(* the drop-in's values after the first if N is a list option and the      *)
(* first is empty; else the previous values followed by the drop-in's.     *)
(***************************************************************************)
MergedValues(old, new, sectionSpec, n) ==
  IF ~ListOption(sectionSpec, n) THEN new
  ELSE IF new[1] = "" THEN Tail(new)
  ELSE old \o new

C2_MergePolicy ==
  [][ (op = "ApplyDropIns" /\ pc = "loop" /\ pc' = "loop" /\ idx' = idx + 1)
      => LET d == dropins[idx]
             sn == ToLower(d.Name)
         IN  \A n \in {ToLower(o.Name) : o \in Range(d.Options)} :
               ValuesOf(slm'[sn][1].Options, n) =
                 MergedValues(ValuesOf(slm[sn][1].Options, n), ValuesOf(d.Options, n),
                              OptionsForSection(secReg, sn).reg[1], n) ]_vars

\* d2 was merged after d1: its empty first value cleared Slice1 (TSK, d1).
C2_Witness ==
  /\ op = "ApplyDropIns" /\ pc = "loop" /\ idx = 3
  /\ tIn = TestFile /\ dropins = <<TestD1, TestD2>>
  /\ ValuesOf(slm["test"][1].Options, "slice1") = <<"d2">>
  /\ ValuesOf(slm["test"][1].Options, "slice2") = <<"d1", "d1">>
  /\ ValuesOf(slm["test"][1].Options, "single") = <<"d1">>

(***************************************************************************)
(* C3: when the base file holds a section name more than once, a drop-in   *)
(* section of that name makes ApplyDropIns return DropInSectionNotAllowed, *)
(* whatever its options and whatever the registry returns for the name.    *)
(***************************************************************************)
C3_NotUniqueNotAllowed ==
  (/\ Done("ApplyDropIns")
   /\ \E k \in Reached : Occurrences(tIn, dropins[k].Name) > 1)
  => res.err = ErrDropInSectionNotAllowed

Resolves(fileSpec, name) ==
  \E mk \in DOMAIN fileSpec : ToLower(mk) = ToLower(name) /\ fileSpec[mk] # <<>>

EntryOf(fileSpec, name) ==
  fileSpec[CHOOSE mk \in DOMAIN fileSpec : ToLower(mk) = ToLower(name)][1]

C6_NoPartialMerge ==
  (Done("ApplyDropIns") /\ ReturnedError) => t = tIn

\* The error came after the merge had changed the section the drop-ins target.
C6_Witness ==
  /\ Done("ApplyDropIns") /\ ReturnedError
  /\ slm # SectionLookup(tIn.Sections)


(***************************************************************************)
(* Claims about ValidateOption and ValidateOptions.                        *)
(***************************************************************************)
\* The values the options of lowercase name n have, in order.
ValuesNamed(opts, n) ==
  LET named == SelectSeq(opts, LAMBDA o : ToLower(o.Name) = n)
  IN  [i \in DOMAIN named |-> named[i].Value]

\* The spec the section defines for lowercase name n.
Defined(sectionSpec, n) ==
  {sectionSpec[j] : j \in {i \in DOMAIN sectionSpec : ToLower(sectionSpec[i].Name) = n}}

AllNamesDefined ==
  \A i \in DOMAIN options : Defined(specs, ToLower(options[i].Name)) # {}

NonListAtMostOnce ==
  \A j \in DOMAIN specs :
    ~IsSliceType(specs[j].Type) =>
      Len(ValuesNamed(options, ToLower(specs[j].Name))) <= 1

RequiredPresentAndNonEmpty ==
  \A j \in DOMAIN specs :
    specs[j].Required =>
      LET vs == ValuesNamed(options, ToLower(specs[j].Name))
      IN  vs # <<>> /\ \A i \in DOMAIN vs : vs[i] # ""

AllValuesTyped ==
  \A j \in DOMAIN specs :
    LET vs == ValuesNamed(options, ToLower(specs[j].Name))
    IN  \A i \in DOMAIN vs : checkValue(vs[i], specs[j].Type) = NoErr

\* C7: ValidateOptions returns no error exactly when every option name is
\* defined, every non-list option occurs at most once, every required option
\* occurs and has no empty value, and every value passes its type check.
C7_ValidateOptionsIff ==
  Done("ValidateOptions") =>
    (res.err = NoErr <=>
       /\ AllNamesDefined
       /\ NonListAtMostOnce
       /\ RequiredPresentAndNonEmpty
       /\ AllValuesTyped)

\* A required option is missing or has an empty value while everything else
\* is valid, and the call reports it.
C7_Witness ==
  /\ Done("ValidateOptions")
  /\ options # <<>>
  /\ AllNamesDefined /\ NonListAtMostOnce /\ AllValuesTyped
  /\ ~RequiredPresentAndNonEmpty
  /\ res.err = ErrOptionRequired

\* The section has options, all of one name, which a non-list spec defines,
\* and there are at least two of them.
OnlyNonListRepeated ==
  /\ Len(options) >= 2
  /\ \A i \in DOMAIN options : ToLower(options[i].Name) = ToLower(options[1].Name)
  /\ Defined(specs, ToLower(options[1].Name)) # {}
  /\ \A d \in Defined(specs, ToLower(options[1].Name)) : ~IsSliceType(d.Type)

\* C8: ValidateOption returns OptionAllowedOnce for a non-list option with
\* more than one value, whatever the values and Required are; so does
\* ValidateOptions on a section whose only option name is a non-list option
\* occurring at least twice.
C8_AllowedOnce ==
  /\ Done("ValidateOption") /\ ~IsSliceType(spec.Type) /\ Len(values) > 1
       => res.err = ErrOptionAllowedOnce
  /\ Done("ValidateOptions") /\ OnlyNonListRepeated
       => res.err = ErrOptionAllowedOnce

\* A required non-list option with two values, one of them empty.
C8_Witness ==
  /\ Done("ValidateOption")
  /\ ~IsSliceType(spec.Type) /\ spec.Required
  /\ Len(values) = 2 /\ values[2] = ""
  /\ res.err = ErrOptionAllowedOnce

RequiredUnmet ==
  /\ Done("ValidateOption") /\ spec.Required
  /\ values = <<>> \/ \E i \in DOMAIN values : values[i] = ""

\* Some value before the first empty one fails the type check.
EarlierValueIllTyped ==
  \E i \in DOMAIN values :
    /\ checkValue(values[i], spec.Type) # NoErr
    /\ \A j \in 1..i : values[j] # ""

\* C9 as stated: a required option with no value or an empty value always
\* gets OptionRequired, for every type and number of values.
C9_RequiredAlways ==
  RequiredUnmet => res.err = ErrOptionRequired

\* C9: a required option with no value or an empty value always gets an
\* error; the error is OptionRequired unless a non-list option has more than
\* one value or a value before the first empty one fails the type check.
C9_RequiredUnlessEarlierError ==
  RequiredUnmet =>
    /\ res.err # NoErr
    /\ ~(~IsSliceType(spec.Type) /\ Len(values) > 1) /\ ~EarlierValueIllTyped
         => res.err = ErrOptionRequired

\* A required list option whose well-typed first value is followed by an
\* empty one.
C9_Witness ==
  /\ RequiredUnmet
  /\ IsSliceType(spec.Type) /\ spec.Type # StringSliceType
  /\ Len(values) >= 2 /\ values[1] # "" /\ values[2] = ""
  /\ res.err = ErrOptionRequired

\* C10: ValidateOptions is deterministic: whatever the order in which the
\* option names and the specs are visited, the call returns the same error
\* naming the same option, also when the section has several violations.
C10_Deterministic ==
  Done("ValidateOptions") =>
    \A order1 \in Perms(DOMAIN GroupValues(options)),
       order2 \in Perms(DOMAIN SpecLookup(specs)) :
      ValidateOptions(options, specs, order1, order2) = res

(***************************************************************************)
(* Claims about ApplyDefaults and ValidateFile.                            *)
(***************************************************************************)
\* The options of lowercase name n, in order.
OptionsNamed(opts, n) == SelectSeq(opts, LAMBDA o : ToLower(o.Name) = n)

\* The spec entries ApplyDefaults has a default to add for: not required, a
\* non-empty Default, and no option of that name among opts.
Defaulted(opts, sectionSpec) ==
  SelectSeq(sectionSpec,
            LAMBDA e : /\ ~e.Required
                       /\ e.Default # ""
                       /\ OptionsNamed(opts, ToLower(e.Name)) = <<>>)

\* opts followed by one option per defaulted entry, in registry order.
WithDefaults(opts, sectionSpec) ==
  opts \o [i \in DOMAIN Defaulted(opts, sectionSpec) |->
             Option(Defaulted(opts, sectionSpec)[i].Name,
                    Defaulted(opts, sectionSpec)[i].Default)]

\* C11: ApplyDefaults never adds an option for a required spec entry: the
\* output holds the options of that name the input held and no other, also
\* when the entry has a non-empty Default.
C11_NoDefaultForRequired ==
  Done("ApplyDefaults") =>
    \A j \in DOMAIN specs :
      specs[j].Required =>
        OptionsNamed(ret, ToLower(specs[j].Name)) =
          OptionsNamed(options, ToLower(specs[j].Name))

\* A required entry with a default is absent from the input, while the other
\* entry's default was added.
C11_Witness ==
  /\ Done("ApplyDefaults")
  /\ \E j \in DOMAIN specs :
       /\ specs[j].Required /\ specs[j].Default # ""
       /\ OptionsNamed(options, ToLower(specs[j].Name)) = <<>>
  /\ Len(ret) = Len(options) + 1

Unresolved ==
  {k \in DOMAIN tIn.Sections :
     ~OptionsForSection(secReg[1], ToLower(tIn.Sections[k].Name)).ok}

FirstUnresolved == CHOOSE k \in Unresolved : \A j \in Unresolved : k <= j

\* The section spec the registry resolves section k of the input to.
SpecOfSection(k) == OptionsForSection(secReg[1], ToLower(tIn.Sections[k].Name)).reg[1]

\* Section k of the input passes ValidateOptions, whatever the map order.
SectionValid(k) ==
  LET sectionSpec == SpecOfSection(k)
      opts == tIn.Sections[k].Options
  IN  \A order1 \in Perms(DOMAIN GroupValues(opts)),
         order2 \in Perms(DOMAIN SpecLookup(sectionSpec)) :
        ValidateOptions(opts, sectionSpec, order1, order2).err = NoErr

\* C13 as stated: whenever the document holds a section the registry does
\* not resolve, ValidateFile returns UnknownSection for the first of them.
C13_UnknownSectionAlways ==
  Done("ValidateFile") /\ secReg # <<>> /\ Unresolved # {} =>
    res = Errorf(tIn.Sections[FirstUnresolved].Name, ErrUnknownSection)

\* C13: when the document holds a section the registry does not resolve and
\* every section before the first of them validates, ValidateFile returns
\* UnknownSection naming that section and has processed no later section;
\* when an earlier section fails validation, that error is returned instead.
C13_UnknownSectionFirst ==
  Done("ValidateFile") /\ secReg # <<>> /\ Unresolved # {} =>
    IF \A k \in 1..(FirstUnresolved - 1) : SectionValid(k)
      THEN /\ res = Errorf(tIn.Sections[FirstUnresolved].Name, ErrUnknownSection)
           /\ idx = FirstUnresolved
           /\ \A k \in DOMAIN t.Sections :
                k >= FirstUnresolved => t.Sections[k] = tIn.Sections[k]
    ELSE res.err \notin {NoErr, ErrUnknownSection} /\ idx < FirstUnresolved

\* The unresolved section is the second one; the first one validated.
C13_Witness ==
  /\ Done("ValidateFile") /\ secReg # <<>>
  /\ Unresolved = {2}
  /\ res.err = ErrUnknownSection

\* Every section of the input is resolved and its own options validate.
AllSectionsValid ==
  /\ secReg # <<>>
  /\ Unresolved = {}
  /\ \A k \in DOMAIN tIn.Sections : SectionValid(k)

\* The defaulted entries of section k whose default fails the type check.
IllTypedDefaults(k) ==
  {e \in Range(Defaulted(tIn.Sections[k].Options, SpecOfSection(k))) :
     checkValue(e.Default, e.Type) # NoErr}

C15_NoPartialValidate ==
  Done("ValidateFile") /\ ReturnedError => t = tIn

\* C15: when ValidateFile returns an error, the failing section and the
\* sections after it are unmodified, and every section before it has been
\* replaced by itself with the defaults applied.
C15_PrefixPrepared ==
  Done("ValidateFile") /\ ReturnedError =>
    /\ idx \in DOMAIN t.Sections
    /\ Len(t.Sections) = Len(tIn.Sections)
    /\ \A k \in DOMAIN t.Sections :
         t.Sections[k] =
           IF k >= idx THEN tIn.Sections[k]
           ELSE Section(tIn.Sections[k].Name,
                        WithDefaults(tIn.Sections[k].Options, SpecOfSection(k)))

\* The second section failed after a default was stored in the first.
C15_Witness ==
  /\ Done("ValidateFile") /\ ReturnedError
  /\ idx = 2
  /\ t.Sections[1] # tIn.Sections[1]

(***************************************************************************)
(* Claims about the lookup in a SectionSpec.                               *)
(***************************************************************************)
\* The entries whose Name equals lookupName ignoring case.
NamedIgnoringCase ==
  {i \in DOMAIN specs : ToLower(specs[i].Name) = ToLower(lookupName)}

\* C16: GetOption and HasOption find the OptionSpec whose Name equals the
\* name asked for ignoring case, whatever the casing of that name, and find
\* nothing only when there is no such OptionSpec.
C16_LookupIgnoresCase ==
  /\ Done("HasOption") => (ret.ok <=> NamedIgnoringCase # {})
  /\ Done("GetOption") =>
       /\ ret.ok <=> NamedIgnoringCase # {}
       /\ ret.ok => \E i \in NamedIgnoringCase : ret.spec = specs[i]

(***************************************************************************)
(* Claims about decoding a section into a struct.                          *)
(***************************************************************************)
\* The option spec the registry resolves for field i, and the values the
\* section has for it.
SpecOfField(i) ==
  FindOption(specs, IF outType.Fields[i].Tag # "" THEN outType.Fields[i].Tag
                    ELSE outType.Fields[i].Name).spec

ValuesOfField(i) ==
  LET named == SelectSeq(inSection.Options,
                         LAMBDA o : ToLower(o.Name) = ToLower(SpecOfField(i).Name))
  IN  [k \in DOMAIN named |-> named[k].Value]

\* A field of scalar kind whose option has more than one value, or is
\* required and has none.
ScalarFieldMiscounted(i) ==
  /\ outType.Fields[i].Kind \in ScalarKinds
  /\ Exported(outType.Fields[i].Name) /\ outType.Fields[i].Tag # "-"
  /\ \E j \in DOMAIN specs : specs[j] = SpecOfField(i)
  /\ \/ Len(ValuesOfField(i)) > 1
     \/ SpecOfField(i).Required /\ Len(ValuesOfField(i)) = 0

\* C18: decoding a section returns an error whenever more than one value of
\* an option targets a field of scalar kind, whatever the option's
\* registered type, and whenever a required option has no value for such a
\* field.
C18_ScalarExactlyOne ==
  Done("decodeSectionToStruct")
    /\ (\E i \in DOMAIN outType.Fields : ScalarFieldMiscounted(i))
    => ReturnedError

\* The record the hook is called with: the raw section and the registry.
HookCall == [sec |-> inSection, spec |-> specs]

SectionNameOf(i) ==
  IF outType.Fields[i].Tag # "" THEN outType.Fields[i].Tag ELSE outType.Fields[i].Name

MatchingSections(i) == GetAll(t.Sections, SectionNameOf(i))

SliceFields ==
  {i \in DOMAIN outType.Fields :
     outType.Fields[i].Kind = StructSliceKind /\ SectionNameOf(i) # "-"}

RequiredMissing ==
  \E i \in DOMAIN outType.Fields :
    /\ outType.Fields[i].Required /\ SectionNameOf(i) # "-"
    /\ MatchingSections(i) = <<>>

\* Section k of those matching field i, decoded onto element cur.
ElementFrom(i, k, cur) ==
  decodeSectionToStruct(MatchingSections(i)[k],
                        FindSection(secReg, SectionNameOf(i)).spec,
                        outType.Fields[i].Elem, cur).val

InitialElement(i, k) ==
  IF k <= Len(outIn[i]) THEN outIn[i][k] ELSE ZeroStruct(outType.Fields[i].Elem)

\* C17: Decode fails when a required section is missing; a successful Decode
\* leaves in a slice field exactly one element per matching section, element
\* k decoded from the k-th matching section, whatever the slice held before.
C17_OneElementPerSection ==
  Done("Decode") =>
    /\ RequiredMissing => ReturnedError
    /\ res.err = NoErr =>
         \A i \in SliceFields :
           /\ Len(outVal[i]) = Len(MatchingSections(i))
           /\ \A k \in 1..Len(MatchingSections(i)) :
                outVal[i][k] = ElementFrom(i, k, InitialElement(i, k))

\* C17, amended: Decode fails when a required section is missing; a
\* successful Decode leaves in a slice field as many elements as the larger
\* of the number of matching sections and the number of elements it held
\* before: element k up to the number of matching sections is the k-th
\* matching section decoded onto the element held at k before (a zero element
\* when there was none), the elements past it are as they were.
C17_SliceGrowsOnly ==
  Done("Decode") =>
    /\ RequiredMissing => ReturnedError
    /\ res.err = NoErr =>
         \A i \in SliceFields :
           LET n == Len(MatchingSections(i))
               m == Len(outIn[i])
           IN  /\ Len(outVal[i]) = IF m > n THEN m ELSE n
               /\ \A k \in 1..n : outVal[i][k] = ElementFrom(i, k, InitialElement(i, k))
               /\ \A k \in (n + 1)..m : outVal[i][k] = outIn[i][k]

\* A successful Decode of a file with matching sections into a slice that
\* held more elements than there are matching sections, and one that grew.
C17_Witness ==
  /\ Done("Decode") /\ res.err = NoErr
  /\ \E i \in SliceFields :
       /\ Len(MatchingSections(i)) >= 1
       /\ Len(outIn[i]) > Len(MatchingSections(i))
       /\ outVal[i] # outIn[i]

(***************************************************************************)
(* Claims about ConvertToFile.                                             *)
(***************************************************************************)
\* The struct the last call of encodeSection encoded, its fields that are
\* encoded, and the option name of a field.
LastEncoded == EncodedStructs(outType, outVal, 1)[idx]

EncodedOptionName(i) ==
  IF LastEncoded.Type.Fields[i].Tag # "" THEN LastEncoded.Type.Fields[i].Tag
  ELSE LastEncoded.Type.Fields[i].Name

EncodedFields ==
  {i \in DOMAIN LastEncoded.Type.Fields :
     Exported(LastEncoded.Type.Fields[i].Name) /\ EncodedOptionName(i) # "-"}

\* The values of the options emitted under a name, in order.
EmittedUnder(name) ==
  LET named == SelectSeq(options, LAMBDA o : o.Name = name)
  IN  [k \in DOMAIN named |-> named[k].Value]

Rendered(kind, x) ==
  CASE kind = BoolKind -> FormatBool(x)
    [] kind = IntKind -> FormatInt(x)
    [] OTHER -> x

\* C20: for a struct ConvertToFile encoded, no option is emitted for a field
\* holding its zero value, exactly one for a non-zero scalar field, and for a
\* list field one per element, zero elements included, in element order, all
\* under the field's option name; the options are in field order.
C20_SparseEncoding ==
  op = "ConvertToFile" /\ idx >= 1 =>
    /\ \A i \in EncodedFields :
         LET kind == LastEncoded.Type.Fields[i].Kind
             x == LastEncoded.Val[i]
         IN  /\ x = Zero(kind) => EmittedUnder(EncodedOptionName(i)) = <<>>
             /\ kind \in ScalarKinds /\ x # Zero(kind) =>
                  EmittedUnder(EncodedOptionName(i)) = <<Rendered(kind, x)>>
             /\ kind \in SliceKinds =>
                  EmittedUnder(EncodedOptionName(i)) =
                    [k \in DOMAIN x |-> Rendered(ElemKind(kind), x[k])]
    /\ \A a, b \in DOMAIN options :
         a < b =>
           \E i, j \in EncodedFields :
             /\ i <= j
             /\ options[a].Name = EncodedOptionName(i)
             /\ options[b].Name = EncodedOptionName(j)

\* A struct with a list field that holds a zero element, followed by a
\* non-zero scalar field, was encoded.
C20_Witness ==
  /\ op = "ConvertToFile" /\ idx >= 1 /\ pc = "done" /\ res.err = NoErr
  /\ \E i, j \in EncodedFields :
       /\ i < j
       /\ LastEncoded.Type.Fields[i].Kind \in SliceKinds
       /\ \E k \in DOMAIN LastEncoded.Val[i] :
            LastEncoded.Val[i][k] = Zero(ElemKind(LastEncoded.Type.Fields[i].Kind))
       /\ LastEncoded.Val[j] # 0
       /\ Len(options) = Len(LastEncoded.Val[i]) + 1

\* The structs of the source structure that are to become sections, in field
\* and element order, and those of them with a field that has an option to
\* emit.
SourceStructs == EncodedStructs(outType, outVal, 1)

EmitsAnOption(s) ==
  \E i \in DOMAIN s.Type.Fields :
    /\ Exported(s.Type.Fields[i].Name)
    /\ s.Type.Fields[i].Tag # "-"
    /\ s.Val[i] # Zero(s.Type.Fields[i].Kind)
    /\ ~(s.Type.Fields[i].Kind = PtrIntKind /\ s.Val[i] = <<0>>)

\* C21: ConvertToFile produces one section for each exported struct field
\* and one per element of each slice field, in field and element order, also
\* for structs whose fields are all zero.
C21_SectionPerStruct ==
  op = "ConvertToFile" /\ pc = "done" /\ res.err = NoErr =>
    /\ ret # <<>>
    /\ Len(ret[1].Sections) = Len(SourceStructs)
    /\ \A k \in DOMAIN SourceStructs : ret[1].Sections[k].Name = SourceStructs[k].Name

\* C21, amended: ConvertToFile produces, in field and element order, one
\* section for each of these structs that has an option to emit, named after
\* the field; a struct whose option fields are all zero produces no section.
C21_SectionPerNonEmptyStruct ==
  op = "ConvertToFile" /\ pc = "done" /\ res.err = NoErr =>
    /\ ret # <<>>
    /\ LET kept == SelectSeq(SourceStructs, EmitsAnOption)
       IN  /\ Len(ret[1].Sections) = Len(kept)
           /\ \A k \in DOMAIN kept :
                /\ ret[1].Sections[k].Name = kept[k].Name
                /\ ret[1].Sections[k].Options # <<>>

\* A slice field with an all-zero element and one that is not was encoded.
C21_Witness ==
  /\ op = "ConvertToFile" /\ pc = "done" /\ res.err = NoErr
  /\ Len(SourceStructs) >= 2
  /\ Len(ret[1].Sections) >= 1
  /\ Len(ret[1].Sections) < Len(SourceStructs)

(***************************************************************************)
(* Claims about encoding a value and decoding it again.                    *)
(***************************************************************************)
\* C22: for every value of a bool, int or duration field, the texts the
\* encoder renders pass the type check of the option type, and decoding them
\* with that type into a field of the same kind returns no error and yields
\* the value.
C22_RoundTrip ==
  op = "RoundTrip" /\ pc = "done" /\ options # <<>> =>
    /\ res.err = NoErr
    /\ ret = <<NoErr>>
    /\ outVal = outIn

\* The same for bool and int options alone.
C22_RoundTripBoolInt ==
  op = "RoundTrip" /\ pc = "done" /\ options # <<>>
    /\ spec.Type \in {BoolType, IntType, IntSliceType} =>
      /\ res.err = NoErr
      /\ ret = <<NoErr>>
      /\ outVal = outIn

(***************************************************************************)
(* Claims about DropInSearchPaths.                                         *)
(***************************************************************************)
\* The unit name without its extension, and the positions of its dashes in
\* increasing order.
NameOfUnit == TrimSuffix(values, Ext(values))

DashPositions ==
  LET ds == {i \in DOMAIN NameOfUnit : NameOfUnit[i] = "-"}
  IN  [k \in 1..Cardinality(ds) |->
         CHOOSE i \in ds : Cardinality({j \in ds : j <= i}) = k]

\* C23: DropInSearchPaths returns rootDir/<ext without dot>.d when the unit
\* name has an extension longer than the dot, then for each dash of the name
\* without extension rootDir/<name up to and including the dash><ext>.d from
\* the shortest prefix to the longest, and last rootDir/<unitName>.d; for
\* ("foo-bar-baz.task", "/lib/") these are /lib/task.d, /lib/foo-.task.d,
\* /lib/foo-bar-.task.d, /lib/foo-bar-baz.task.d.
C23_SearchPathOrder ==
  op = "DropInSearchPaths" /\ pc = "done" =>
    /\ ret =
         (IF Len(Ext(values)) > 1
            THEN <<filepathJoin(lookupName, Text(Tail(Ext(values))) \o ".d")>>
          ELSE <<>>)
         \o [k \in DOMAIN DashPositions |->
               filepathJoin(lookupName,
                 Text(SubSeq(NameOfUnit, 1, DashPositions[k])) \o Text(Ext(values)) \o ".d")]
         \o <<filepathJoin(lookupName, Text(values) \o ".d")>>
    /\ values = TestUnitName /\ lookupName = "/lib/" =>
         ret = <<"/lib/task.d", "/lib/foo-.task.d", "/lib/foo-bar-.task.d",
                 "/lib/foo-bar-baz.task.d">>

\* The call for ("foo-bar-baz.task", "/lib/") returned.
C23_Witness ==
  /\ op = "DropInSearchPaths" /\ pc = "done"
  /\ values = TestUnitName /\ lookupName = "/lib/"
  /\ Len(ret) = 4

\* C29: the paths DropInSearchPaths returns are pairwise distinct.
C29_DistinctPaths ==
  op = "DropInSearchPaths" /\ pc = "done" =>
    \A i, j \in DOMAIN ret : ret[i] = ret[j] => i = j

(***************************************************************************)
(* Claims about ParseFromEnv.                                              *)
(***************************************************************************)
\* The index an entry names (0 without a number), its section and its option.
EnvIndexOf(e) ==
  IF Len(e.Parts) >= 4 /\ ParseIndex(e.Parts[3]) # <<>>
    THEN ParseIndex(e.Parts[3])[1] ELSE 0

EnvOptionOf(e) == e.Parts[Len(e.Parts)]

\* The entries with the prefix, and the environments the claim is about:
\* every such entry names a registered section and option, and the indices
\* given for a section are 0..n-1.
EnvPrefixed == {e \in outIn : e.Parts[1] = lookupName}

EnvWellFormed ==
  /\ EnvPrefixed # {}
  /\ \A e \in EnvPrefixed :
       /\ OptionsForSection(secReg, e.Parts[2]).ok
       /\ GetOption(EnvSectionSpec, ToLower(EnvOptionOf(e))).ok
       /\ \A i \in 0..(EnvIndexOf(e) - 1) :
            \E f \in EnvPrefixed : f.Parts[2] = e.Parts[2] /\ EnvIndexOf(f) = i

\* The options given for index i of section sn, as the set of their names
\* and values, and the options section sec holds.
EnvGiven(sn, i) ==
  UNION { LET o == GetOption(EnvSectionSpec, ToLower(EnvOptionOf(e))).spec
              vals == IF IsSliceType(o.Type) THEN shlexSplit(e.Value) ELSE <<e.Value>>
          IN  {Option(o.Name, v) : v \in Range(vals)} :
          e \in {f \in EnvPrefixed : ToLower(f.Parts[2]) = sn /\ EnvIndexOf(f) = i} }

\* C25: with the entries PREFIX_SECTION_OPTION for index 0 and
\* PREFIX_SECTION_<i>_OPTION for the indices 1..n-1, ParseFromEnv returns no
\* error and a document with n sections of that name, the i-th holding
\* exactly the options given for index i, in whatever order the entries are
\* visited.
C25_IndexedSections ==
  op = "ParseFromEnv" /\ pc = "done" /\ EnvWellFormed =>
    /\ res.err = NoErr
    /\ \A sn \in {ToLower(e.Parts[2]) : e \in EnvPrefixed} :
         LET secs == GetAll(t[1].Sections, sn)
             n == Cardinality({EnvIndexOf(e) : e \in {f \in EnvPrefixed :
                                                        ToLower(f.Parts[2]) = sn}})
         IN  /\ Len(secs) = n
             /\ \A i \in 1..n : Range(secs[i].Options) = EnvGiven(sn, i - 1)

(***************************************************************************)
(* Claims about SearchDropinFiles.                                         *)
(***************************************************************************)
\* The places of the candidate directories that hold name n as a file that
\* is no directory, and the drop-in file names found in any of them.
HoldingDirs(n) ==
  {k \in DOMAIN ret :
     /\ secReg[ret[k]].err = NoErr
     /\ \E e \in Range(secReg[ret[k]].files) : e.Name = n /\ ~e.IsDir}

DropInNames ==
  {n \in {e.Name : e \in UNION {Range(secReg[d].files) : d \in DOMAIN secReg}} :
     HasSuffixDropInExt(n) /\ HoldingDirs(n) # {}}

AllReadable == \A d \in DOMAIN secReg : secReg[d].err \in {NoErr, ErrNotExist}

\* C24: SearchDropinFiles returns one path for each file name that ends in
\* .conf and is a file, not a directory, of some candidate directory, in the
\* lexicographic order of the file names, each path lying in the last
\* searched directory that holds the name; directories that do not exist are
\* skipped without error.  For the file system of the test these are
\* /lib/foo-bar-baz.task.d/10-overwrite.conf, /lib/task.d/20-task.d.conf and
\* /lib/foo-.task.d/30-foo-task.d.conf.
C24_OnePathPerName ==
  op = "SearchDropinFiles" /\ pc = "done" /\ AllReadable =>
    /\ res.err = NoErr
    /\ Len(options) = Cardinality(DropInNames)
    /\ \A n \in DropInNames :
         LET last == CHOOSE k \in HoldingDirs(n) : \A j \in HoldingDirs(n) : j <= k
             place == 1 + Cardinality({m \in DropInNames : NameRank(m) < NameRank(n)})
         IN  options[place] = ret[last] \o "/" \o n
    /\ secReg = TestReadDir =>
         options = << "/lib/foo-bar-baz.task.d/10-overwrite.conf",
                      "/lib/task.d/20-task.d.conf",
                      "/lib/foo-.task.d/30-foo-task.d.conf" >>

\* The call of the test returned its three paths, one of them for a name
\* held by three directories, with a directory that does not exist skipped.
C24_Witness ==
  /\ op = "SearchDropinFiles" /\ pc = "done"
  /\ secReg = TestReadDir
  /\ Len(options) = 3
  /\ Cardinality(HoldingDirs("10-overwrite.conf")) = 3

(***************************************************************************)
(* The frame of ApplyDropIns.                                              *)
(***************************************************************************)
\* The lowercased names of the sections and of the options of the drop-ins.
DropInTargets == {ToLower(d.Name) : d \in Range(dropins)}

DropInOptionNames ==
  UNION {{ToLower(o.Name) : o \in Range(d.Options)} : d \in Range(dropins)}

RepeatedInBase(sn) ==
  Cardinality({i \in DOMAIN tIn.Sections : ToLower(tIn.Sections[i].Name) = sn}) > 1

\* The options of a section whose names occur in no drop-in, in their order.
Untouched(sec) ==
  SelectSeq(sec.Options, LAMBDA o : ToLower(o.Name) \notin DropInOptionNames)

\* C26: after a successful ApplyDropIns the document has the sections of the
\* base, in number, order and name; a section that no drop-in names, and a
\* section whose name is repeated in the base, has exactly the options it
\* had; and in a section a drop-in names, the options whose names occur in
\* no drop-in keep their values and their relative order.
C26_DropInFrame ==
  op = "ApplyDropIns" /\ pc = "done" /\ res.err = NoErr =>
    /\ Len(t.Sections) = Len(tIn.Sections)
    /\ \A i \in DOMAIN tIn.Sections :
         LET sn == ToLower(tIn.Sections[i].Name)
         IN  /\ t.Sections[i].Name = tIn.Sections[i].Name
             /\ sn \notin DropInTargets \/ RepeatedInBase(sn) =>
                  t.Sections[i].Options = tIn.Sections[i].Options
             /\ Untouched(t.Sections[i]) = Untouched(tIn.Sections[i])

\* A successful call on a base of two sections, one of them named by a
\* drop-in that changed it and left an option of another name in it.
C26_Witness ==
  /\ op = "ApplyDropIns" /\ pc = "done" /\ res.err = NoErr
  /\ Len(tIn.Sections) = 2
  /\ \E i, j \in DOMAIN tIn.Sections :
       /\ ToLower(tIn.Sections[i].Name) \in DropInTargets
       /\ t.Sections[i].Options # tIn.Sections[i].Options
       /\ Untouched(tIn.Sections[i]) # <<>>
       /\ ToLower(tIn.Sections[j].Name) \notin DropInTargets
       /\ tIn.Sections[j].Options # <<>>

(***************************************************************************)
(* Validity after merging, and ValidateFile called twice.                  *)
(***************************************************************************)
\* Every section of the file resolves in the registry and its options pass
\* ValidateOptions, in whatever order the maps are ranged over.
PassesValidation(file) ==
  \A i \in DOMAIN file.Sections :
    LET sec == file.Sections[i]
        found == OptionsForSection(secReg, ToLower(sec.Name))
    IN  /\ found.ok /\ found.reg # <<>>
        /\ \A order1 \in Perms(DOMAIN GroupValues(sec.Options)),
              order2 \in Perms(DOMAIN SpecLookup(found.reg[1])) :
             ValidateOptions(sec.Options, found.reg[1], order1, order2).err = NoErr

\* C27: when the base document passes validation against the registry and
\* ApplyDropIns with that registry returns no error, every section of the
\* merged document passes ValidateOptions.
C27_MergeKeepsValid ==
  op = "ApplyDropIns" /\ pc = "done" /\ res.err = NoErr /\ PassesValidation(tIn) =>
    PassesValidation(t)

\* C28: when ValidateFile returned no error, a second ValidateFile on the
\* resulting document with the same registry returns no error and leaves the
\* document as it is.
C28_ValidateFileIdempotent ==
  op = "ValidateFile" /\ pc = "done" /\ ret # <<>> =>
    res.err = NoErr /\ t = ret[1]

\* The second call never changes the document, whatever it returns.
SecondCallKeepsDocument ==
  op = "ValidateFile" /\ ret # <<>> => t = ret[1]

(***************************************************************************)
(* Faults of decode.                                                       *)
(***************************************************************************)
\* C30: decoding the values of an option into a field returns success or an
\* error value, whatever the number of values, the option's type and the
\* field's kind: it never faults on reading the first value of an empty
\* list.
C30_DecodeNeverFaults ==
  op = "decodeSectionToStruct" /\ pc = "done" => res.err # Panic

====
